---- MODULE Spec2Model ----
(***************************************************************************)
(* A model of the query gateway of requestyai/go-postgres-mcp.             *)
(*                                                                         *)
(* The repository holds three overlapping variants of the server:          *)
(*   "handlers"  the method-based handlers of src/handlers.go together     *)
(*               with the server of src/unnamed/part_001;                  *)
(*   "pgx"       the function-based server of src/unnamed/part_003,        *)
(*               lines 1-1178 (global pgxpool, metrics and mutex);         *)
(*   "sqlx"      the lazily connecting server of src/unnamed/part_003,     *)
(*               lines 1180-1835 (closures registered in main).            *)
(* The utility methods the handlers of src/handlers.go call                *)
(* (h.executeQuery, h.handleError, h.updateMetrics, h.isReadOnlyQuery) are *)
(* announced for a utils.go; they are modelled by the functions of the     *)
(* same names of the "pgx" variant.                                        *)
(*                                                                         *)
(* Statement texts are sequences of one-character strings, so that         *)
(* trimming, upper-casing, prefix and substring tests and the formatting   *)
(* of numbers are computed as the Go code computes them.                   *)
(***************************************************************************)
EXTENDS Integers, Sequences, FiniteSets, TLC

\* ------------------------------------------------------------------ bounds
\* Requests handled in one behaviour.
MaxRequests == 2
\* Longest elapsed time (in clock ticks) one call can take.
MaxDur == 1
\* Largest affected-row count the database reports.
MaxRows == 1
\* Most rows one result cursor delivers.
MaxResultRows == 2
\* Requests touching the metrics concurrently, and the accesses they start.
NumProcs == 2
MaxOps == 3
\* Concurrent read_query requests in flight against the pool.
NumRequests == 3
\* config.MaxConnections (--max-connections), chosen below NumRequests.
MaxConnections == 2

\* --------------------------------------------------------- program constants
\* getNumberParam(request, "limit", 1000)
DefaultLimit == 1000

VARIABLES
    variant,            \* which of the three servers runs
    ReadOnly,           \* config.ReadOnly / ReadOnly flag
    WithExplainCheck,   \* config.ExplainCheck / WithExplainCheck flag
    tools,              \* the tools registered with the MCP server
    QueriesExecuted,    \* metrics.QueriesExecuted
    QueryErrors,        \* metrics.QueryErrors
    TotalResponseTime,  \* metrics.TotalResponseTime
    dbCalls,            \* statements sent to the database so far
    nreq,               \* requests handled so far
    req,                \* the request handled last
    resp,               \* the payload returned for it
    sent,               \* the statements it sent to the database, in order
    DB,                 \* the sqlx variant's lazily opened handle
    pc,                 \* where each concurrent read_query stands
    leases,             \* the requests holding a pooled connection
    phase,              \* starting, serving, or exited at startup
    DSN,                \* config.DSN / the DSN flag
    stats,              \* the payload of get_stats, when it was the last call
    xq,                 \* one statement execution, step by step
    mu,                 \* the RWMutex of the metrics: its writer and readers
    task,               \* each concurrent request's place in a metrics access
    ops,                \* the metrics accesses started so far
    conn,               \* the callers of GetDB and the handles sqlx.Connect made
    sd,                 \* the process around the serving loop, up to its exit
    fm                  \* one result, its format and its renderings

vars == <<variant, ReadOnly, WithExplainCheck, tools, QueriesExecuted,
          QueryErrors, TotalResponseTime, dbCalls, nreq, req, resp, sent, DB,
          pc, leases, phase, DSN, stats, xq, mu, task, ops, conn, sd,
          fm>>

\* ------------------------------------------------------------------- texts
LowerCase == <<"a", "b", "c", "d", "e", "f", "g", "h", "i", "j", "k", "l", "m", "n", "o", "p", "q", "r", "s", "t", "u", "v", "w", "x", "y", "z">>
UpperCase == <<"A", "B", "C", "D", "E", "F", "G", "H", "I", "J", "K", "L", "M", "N", "O", "P", "Q", "R", "S", "T", "U", "V", "W", "X", "Y", "Z">>
Digits == <<"0", "1", "2", "3", "4", "5", "6", "7", "8", "9">>

KW_SELECT == <<"S", "E", "L", "E", "C", "T">>
KW_WITH == <<"W", "I", "T", "H">>
KW_EXPLAIN == <<"E", "X", "P", "L", "A", "I", "N">>
KW_WHERE == <<"W", "H", "E", "R", "E">>
KW_LIMIT == <<"L", "I", "M", "I", "T">>
KW_INSERT == <<"I", "N", "S", "E", "R", "T">>
KW_UPDATE == <<"U", "P", "D", "A", "T", "E">>
KW_DELETE == <<"D", "E", "L", "E", "T", "E">>

S_LIMIT == <<" ", "L", "I", "M", "I", "T", " ">>
S_EXPLAIN == <<"E", "X", "P", "L", "A", "I", "N">>
S_ANALYZE == <<" ", "A", "N", "A", "L", "Y", "Z", "E">>
S_BUFFERS == <<" ", "B", "U", "F", "F", "E", "R", "S">>
S_EXPLAIN_SP == <<"E", "X", "P", "L", "A", "I", "N", " ">>
S_DROP_INDEX_SP == <<"D", "R", "O", "P", " ", "I", "N", "D", "E", "X", " ">>
S_ANALYZE_SP == <<"A", "N", "A", "L", "Y", "Z", "E", " ">>
S_COUNT_FROM == <<"S", "E", "L", "E", "C", "T", " ", "C", "O", "U", "N", "T", "(", "*", ")", " ", "a", "s", " ", "c", "o", "u", "n", "t", " ", "F", "R", "O", "M", " ">>
S_WHERE_SP == <<" ", "W", "H", "E", "R", "E", " ">>
S_public == <<"p", "u", "b", "l", "i", "c">>
S_DOT == <<".">>
S_SP == <<" ">>

\* The statement texts callers submit.
T_empty == <<>>
T_select == <<"s", "e", "l", "e", "c", "t", " ", "1">>
T_selectSp == <<" ", "S", "E", "L", "E", "C", "T", " ", "1">>
T_with == <<"W", "i", "t", "h", " ", "x">>
T_explain == <<"E", "X", "P", "L", "A", "I", "N", " ", "s", "e", "l", "e", "c", "t", " ", "1">>
T_limit == <<"s", "e", "l", "e", "c", "t", " ", "1", " ", "l", "i", "m", "i", "t", " ", "5">>
T_paren == <<"(", "s", "e", "l", "e", "c", "t", " ", "1", ")">>
T_update == <<"U", "P", "D", "A", "T", "E", " ", "t", " ", "S", "E", "T", " ", "x", "=", "1">>
T_updateWhere == <<"U", "P", "D", "A", "T", "E", " ", "t", " ", "S", "E", "T", " ", "x", "=", "1", " ", "W", "H", "E", "R", "E", " ", "i", "d", "=", "5">>
T_delete == <<"d", "e", "l", "e", "t", "e", " ", "f", "r", "o", "m", " ", "t">>
T_deleteWhere == <<"d", "e", "l", "e", "t", "e", " ", "f", "r", "o", "m", " ", "t", " ", "w", "h", "e", "r", "e", " ", "i", "d", "=", "1">>
T_insert == <<"I", "N", "S", "E", "R", "T", " ", "I", "N", "T", "O", " ", "t">>

T_create == <<"C", "R", "E", "A", "T", "E", " ", "x">>

\* The statement texts each tool is called with.
ReadTexts == {T_empty, T_selectSp, T_with, T_explain, T_limit, T_paren, T_update}
ExplainTexts == {T_empty, T_select, T_delete}
WriteTexts == {T_empty, T_insert}
UpdateTexts == {T_empty, T_update, T_updateWhere}
DeleteTexts == {T_empty, T_delete, T_deleteWhere}
DDLTexts == {T_empty, T_create}

\* strings.ToUpper, one rune at a time
ToUpperRune(c) ==
    IF \E i \in 1..Len(LowerCase) : LowerCase[i] = c
    THEN UpperCase[CHOOSE i \in 1..Len(LowerCase) : LowerCase[i] = c]
    ELSE c

ToUpper(s) == [i \in 1..Len(s) |-> ToUpperRune(s[i])]

IsSpace(c) == c \in {" ", "\t", "\n", "\r"}

RECURSIVE TrimLeft(_)
TrimLeft(s) ==
    IF s # <<>> /\ IsSpace(Head(s)) THEN TrimLeft(Tail(s)) ELSE s

RECURSIVE TrimRight(_)
TrimRight(s) ==
    IF s # <<>> /\ IsSpace(s[Len(s)])
    THEN TrimRight(SubSeq(s, 1, Len(s) - 1))
    ELSE s

\* strings.TrimSpace
TrimSpace(s) == TrimRight(TrimLeft(s))

\* strings.HasPrefix
HasPrefix(s, p) == Len(s) >= Len(p) /\ SubSeq(s, 1, Len(p)) = p

\* strings.Contains
Contains(s, p) ==
    \E i \in 1..(Len(s) - Len(p) + 1) : SubSeq(s, i, i + Len(p) - 1) = p

\* fmt's %d of an int
RECURSIVE Itoa(_)
Itoa(n) ==
    IF n < 0 THEN <<"-">> \o Itoa(-n)
    ELSE IF n < 10 THEN <<Digits[n + 1]>>
    ELSE Itoa(n \div 10) \o <<Digits[(n % 10) + 1]>>

\* ------------------------------------------------------- request arguments
\* A JSON number is a float64; it is kept in tenths (25 is 2.5).  An
\* argument is absent, a number, or a value of another type (a string).
AbsentArg == [kind |-> "absent", tenths |-> 0]
NumberArg(t) == [kind |-> "number", tenths |-> t]
StringArg == [kind |-> "string", tenths |-> 0]

Limits == {AbsentArg, NumberArg(25), StringArg}

\* getNumberParam: the value when the argument is a float64, else the default
getNumberParam(arg, defaultValue) ==
    IF arg.kind = "number" THEN arg.tenths ELSE defaultValue * 10

\* Go's int(f) of a float64: truncation toward zero
IntOf(tenths) ==
    IF tenths >= 0 THEN tenths \div 10 ELSE -((-tenths) \div 10)

Variants == {"handlers", "pgx", "sqlx"}

SchemaTools == {"list_databases", "list_tables", "list_columns",
                "describe_table", "get_table_size", "list_indexes"}
QueryTools == {"read_query", "count_query", "explain_query"}
MutatingTools == {"write_query", "update_query", "delete_query",
                  "create_table", "alter_table", "create_index", "drop_index"}
MonitoringTools == {"get_stats", "get_slow_queries", "analyze_table"}

\* The tools createMCPServer registers; the write tools only when the
\* server is not read-only.
createMCPServer(ro) ==
    SchemaTools \cup {"list_constraints"} \cup QueryTools
        \cup (IF ~ro THEN MutatingTools ELSE {})
        \cup MonitoringTools

\* The tools main() of the sqlx variant registers.
sqlxMain(ro) ==
    SchemaTools \cup QueryTools
        \cup (IF ~ro THEN MutatingTools \ {"drop_index"} ELSE {})

\* --------------------------------------------------------------- responses
\* text is the payload's text in the parts Sprintf joins; terr is the
\* transport-level error the handler returns beside the payload.
NoResp ==
    [kind |-> "none", msg |-> "", rows |-> 0, errAt |-> 0, text |-> <<>>,
     terr |-> "nil"]
\* mcp.NewToolResultText(fmt.Sprintf("Error: %v", err)); errAt is the
\* position in sent of the database call whose error it carries (0: the
\* error was raised by the handler itself).
ErrorResp(m, at) ==
    [kind |-> "error", msg |-> m, rows |-> 0, errAt |-> at,
     text |-> <<"Error: ", m>>, terr |-> "nil"]
TextResp(m, n) ==
    [kind |-> "text", msg |-> m, rows |-> n, errAt |-> 0, text |-> <<m>>,
     terr |-> "nil"]

\* One statement sent to the database: its text, the driver call that sent
\* it, whether the database accepted it and the affected-row count the
\* database reported for it; why is the error of a failed one and args are
\* the values bound to its positional parameters.
Stmt(text, op, ok, n) ==
    [text |-> text, op |-> op, ok |-> ok, rows |-> n,
     why |-> IF ok THEN "" ELSE "db", args |-> <<>>]

\* What one request changes: metric increments.
M0 == [err |-> 0, exec |-> 0, time |-> 0]

\* The outcome of one handler call: the payload, the statements sent, the
\* metric increments and the database handle afterwards.
Out(r, s, m) == [resp |-> r, sent |-> s, m |-> m, db |-> DB]
OutDB(r, s, d) == [resp |-> r, sent |-> s, m |-> M0, db |-> d]

\* A string argument of a request: absent, or given with a value.
AbsentStr == [given |-> FALSE, val |-> <<>>]
Str(v) == [given |-> TRUE, val |-> v]

\* getStringParam: the value when the argument is a string, else the default
getStringParam(arg, defaultValue) ==
    IF arg.given THEN arg.val ELSE defaultValue

\* getBoolParam with default false is the argument itself: an absent flag is
\* a request whose flag is FALSE.

BaseReq(tool) ==
    [tool |-> tool, query |-> <<>>, force |-> FALSE, limit |-> AbsentArg,
     analyze |-> FALSE, buffers |-> FALSE, name |-> AbsentStr,
     schema |-> AbsentStr, where |-> <<>>, returnID |-> FALSE]

\* Identifier arguments callers submit.
I_t == <<"t">>
I_s == <<"s">>
I_cond == <<"i", "d", "=", "1">>
Names == {AbsentStr, Str(I_t)}
Schemas == {AbsentStr, Str(I_s)}
Wheres == {<<>>, I_cond}

\* What the environment decides for one request: whether sqlx.Connect
\* succeeds (connOk), whether the database accepts the EXPLAIN pre-flight
\* (exOk) and the statement itself (dbOk), the affected-row count it reports
\* (rows), the time the statement took (dq) and the time the whole handler
\* took (dh >= dq: the handler's clock starts first).
AllEnvs ==
    [connOk : BOOLEAN, exOk : BOOLEAN, dbOk : BOOLEAN, rows : 0..MaxRows,
     dq : 0..MaxDur, dh : 0..MaxDur]

\* The pool of the pgx variants is connected at startup and they run no
\* pre-flight; a failed statement reports no rows.
PgxEnvs ==
    {e \in AllEnvs : /\ e.connOk /\ e.exOk /\ e.dq <= e.dh
                     /\ (~e.dbOk => e.rows = 0 /\ e.dq = 0)}

\* The sqlx variant measures no time.
SqlxEnvs ==
    {e \in AllEnvs : /\ e.dq = 0 /\ e.dh = 0
                     /\ (~e.dbOk => e.rows = 0)}

\* ------------------------------------------------ utilities (pgx variants)
\* handleError: one more query error; the payload is "Error: <err>"
handleError(m) == [m EXCEPT !.err = @ + 1]

\* updateMetrics(start), deferred by the handlers: the handler's elapsed
\* time is added to the cumulative response time
updateMetrics(m, d) == [m EXCEPT !.time = @ + d]

\* isReadOnlyQuery
isReadOnlyQuery(query) ==
    LET upperQuery == ToUpper(TrimSpace(query))
    IN  \/ HasPrefix(upperQuery, KW_SELECT)
        \/ HasPrefix(upperQuery, KW_WITH)
        \/ HasPrefix(upperQuery, KW_EXPLAIN)

\* "Add limit if not present" of the read handlers
\* A fault of addLimit: the LIMIT test on the text as written.
addLimit_CaseSensitive(query, limit) ==
    IF ~Contains(query, KW_LIMIT)
    THEN query \o S_LIMIT \o Itoa(IntOf(limit))
    ELSE query

addLimit(query, limit) ==
    IF ~Contains(ToUpper(query), KW_LIMIT)
    THEN query \o S_LIMIT \o Itoa(IntOf(limit))
    ELSE query

\* The WHERE-clause guard of the update and delete handlers: TRUE when the
\* request is rejected
\* Faults of missingWhere: the override flag read inverted; the override
\* flag not read at all.
missingWhere_ForceInverted(query, force) ==
    force /\ ~Contains(ToUpper(query), KW_WHERE)

missingWhere_IgnoreForce(query, force) ==
    ~Contains(ToUpper(query), KW_WHERE)

missingWhere(query, force) ==
    ~force /\ ~Contains(ToUpper(query), KW_WHERE)

\* executeQuery: one dbPool.Query; an error counts one query error, a
\* success counts one executed query and its duration
executeQuery(query, e) ==
    IF ~e.dbOk
    THEN [ok |-> FALSE, sent |-> <<Stmt(query, "query", FALSE, 0)>>,
          m |-> [err |-> 1, exec |-> 0, time |-> 0]]
    ELSE [ok |-> TRUE, sent |-> <<Stmt(query, "query", TRUE, 0)>>,
          m |-> [err |-> 0, exec |-> 1, time |-> e.dq]]

\* executeQueryWithParams: executeQuery with args bound to $1, $2, ...
executeQueryWithParams(query, args, e) ==
    LET x == executeQuery(query, e)
    IN  [x EXCEPT !.sent = <<[x.sent[1] EXCEPT !.args = args]>>]

\* executeWriteQuery: one dbPool.Exec; the response carries
\* result.RowsAffected()
executeWriteQuery(query, returnID, e) ==
    IF ~e.dbOk
    THEN [ok |-> FALSE, sent |-> <<Stmt(query, "exec", FALSE, 0)>>, rows |-> 0,
          note |-> FALSE, m |-> [err |-> 1, exec |-> 0, time |-> 0]]
    ELSE [ok |-> TRUE, sent |-> <<Stmt(query, "exec", TRUE, e.rows)>>,
          rows |-> e.rows,
          note |-> returnID /\ Contains(ToUpper(query), KW_INSERT),
          m |-> [err |-> 0, exec |-> 1, time |-> e.dq]]

\* A handler's "return h.handleError(err)" after its deferred updateMetrics
\* was registered.
Reject(msg, e) ==
    Out(ErrorResp(msg, 0), <<>>, updateMetrics(handleError(M0), e.dh))

\* The read-only test that opens the write handlers, before the deferred
\* updateMetrics is registered.
RejectReadOnly ==
    Out(ErrorResp("server is in read-only mode", 0), <<>>, handleError(M0))

\* The tail shared by the read handlers: executeQuery, then handleError or
\* the formatted result.
RunRead(query, e) ==
    LET x == executeQuery(query, e)
    IN  IF ~x.ok
        THEN Out(ErrorResp("db error", 1), x.sent,
                 updateMetrics(handleError(x.m), e.dh))
        ELSE Out(TextResp("result", 0), x.sent, updateMetrics(x.m, e.dh))

\* The same tail behind executeQueryWithParams.
RunReadWithParams(query, args, e) ==
    LET x == executeQueryWithParams(query, args, e)
    IN  IF ~x.ok
        THEN Out(ErrorResp("db error", 1), x.sent,
                 updateMetrics(handleError(x.m), e.dh))
        ELSE Out(TextResp("result", 0), x.sent, updateMetrics(x.m, e.dh))

\* The statements of list_tables and list_indexes, in the pieces Sprintf
\* joins.
S_LIST_TABLES == <<"SELECT table_schema, table_name, table_type, ... FROM information_schema.tables ">>
S_LIST_TABLES_SQLX == <<"SELECT table_schema, table_name, table_type FROM information_schema.tables">>
S_ORDER_TABLES == <<" ORDER BY table_schema, table_name">>
S_LIST_INDEXES == <<"SELECT schemaname, tablename, indexname, indexdef FROM pg_indexes ">>
S_LIST_INDEXES_SQLX == <<"SELECT schemaname, tablename, indexname, indexdef FROM pg_indexes">>
S_ORDER_INDEXES == <<" ORDER BY schemaname, tablename, indexname">>
S_WHERE_table_schema == <<"WHERE table_schema = ">>
S_WHERE_tablename == <<"WHERE tablename = ">>
S_WHERE_schemaname == <<"WHERE schemaname = ">>
S_AND_schemaname == <<" AND schemaname = ">>
S_tablename == <<"tablename = ">>
S_schemaname == <<"schemaname = ">>
S_AND == <<" AND ">>
S_QUOTE == <<"'">>
S_P1 == <<"$1">>
S_P2 == <<"$2">>

\* Sprintf's '%s'
Quoted(v) == S_QUOTE \o v \o S_QUOTE

\* HandleListTables / handleListTables: the schema is written into the text
HandleListTables(r, e) ==
    LET schema == getStringParam(r.schema, <<>>)
        whereClause == IF schema # <<>>
                       THEN S_WHERE_table_schema \o Quoted(schema) ELSE <<>>
    IN  RunRead(S_LIST_TABLES \o whereClause \o S_ORDER_TABLES, e)

\* HandleListIndexes: the identifiers are bound to $1 and $2
HandleListIndexes(r, e) ==
    LET tableName == getStringParam(r.name, <<>>)
        schema == getStringParam(r.schema, <<>>)
        whereClause ==
            IF tableName # <<>>
            THEN S_WHERE_tablename \o S_P1
                    \o (IF schema # <<>> THEN S_AND_schemaname \o S_P2 ELSE <<>>)
            ELSE IF schema # <<>> THEN S_WHERE_schemaname \o S_P1 ELSE <<>>
        args == (IF tableName # <<>> THEN <<tableName>> ELSE <<>>)
                    \o (IF schema # <<>> THEN <<schema>> ELSE <<>>)
        query == S_LIST_INDEXES \o whereClause \o S_ORDER_INDEXES
    IN  IF Len(args) > 0 THEN RunReadWithParams(query, args, e)
        ELSE RunRead(query, e)

\* handleListIndexes: the identifiers are written into the text
handleListIndexes(r, e) ==
    LET tableName == getStringParam(r.name, <<>>)
        schema == getStringParam(r.schema, <<>>)
        whereClause ==
            IF tableName # <<>>
            THEN S_WHERE_tablename \o Quoted(tableName)
                    \o (IF schema # <<>>
                        THEN S_AND_schemaname \o Quoted(schema) ELSE <<>>)
            ELSE IF schema # <<>> THEN S_WHERE_schemaname \o Quoted(schema)
            ELSE <<>>
    IN  RunRead(S_LIST_INDEXES \o whereClause \o S_ORDER_INDEXES, e)

\* The tail shared by the write handlers: executeWriteQuery, then
\* handleError or the affected-row summary.
RunWrite(query, returnID, e) ==
    LET x == executeWriteQuery(query, returnID, e)
    IN  IF ~x.ok
        THEN Out(ErrorResp("db error", 1), x.sent,
                 updateMetrics(handleError(x.m), e.dh))
        ELSE Out(TextResp(IF x.note THEN "rows affected, RETURNING note"
                                    ELSE "rows affected", x.rows),
                 x.sent, updateMetrics(x.m, e.dh))

\* ------------------------------------------- handlers of src/handlers.go
HandleReadQuery(r, e) ==
    IF r.query = <<>> THEN Reject("query parameter is required", e)
    ELSE IF ~isReadOnlyQuery(r.query)
    THEN Reject("only SELECT queries are allowed in read_query", e)
    ELSE RunRead(addLimit(r.query, getNumberParam(r.limit, DefaultLimit)), e)

HandleCountQuery(r, e) ==
    LET base == S_COUNT_FROM \o getStringParam(r.schema, S_public) \o S_DOT
                    \o getStringParam(r.name, <<>>)
        query == IF r.where # <<>> THEN base \o S_WHERE_SP \o r.where ELSE base
    IN  RunRead(query, e)

HandleExplainQuery(r, e) ==
    IF r.query = <<>> THEN Reject("query parameter is required", e)
    ELSE RunRead(S_EXPLAIN \o (IF r.analyze THEN S_ANALYZE ELSE <<>>)
                     \o (IF r.buffers THEN S_BUFFERS ELSE <<>>)
                     \o S_SP \o r.query, e)

HandleWriteQuery(r, e) ==
    IF ReadOnly THEN RejectReadOnly
    ELSE IF r.query = <<>> THEN Reject("query parameter is required", e)
    ELSE RunWrite(r.query, r.returnID, e)

\* A fault of HandleUpdateQuery: the clause checks ahead of the mode check.
HandleUpdateQuery_ClauseFirst(r, e) ==
    IF r.query = <<>> THEN Reject("query parameter is required", e)
    ELSE IF missingWhere(r.query, r.force)
    THEN Reject("UPDATE queries must include a WHERE clause. Use force=true to override", e)
    ELSE IF ReadOnly THEN RejectReadOnly
    ELSE RunWrite(r.query, FALSE, e)

HandleUpdateQuery(r, e) ==
    IF ReadOnly THEN RejectReadOnly
    ELSE IF r.query = <<>> THEN Reject("query parameter is required", e)
    ELSE IF missingWhere(r.query, r.force)
    THEN Reject("UPDATE queries must include a WHERE clause. Use force=true to override", e)
    ELSE RunWrite(r.query, FALSE, e)

HandleDeleteQuery(r, e) ==
    IF ReadOnly THEN RejectReadOnly
    ELSE IF r.query = <<>> THEN Reject("query parameter is required", e)
    ELSE IF missingWhere(r.query, r.force)
    THEN Reject("DELETE queries must include a WHERE clause. Use force=true to override", e)
    ELSE RunWrite(r.query, FALSE, e)

HandleCreateTable(r, e) ==
    IF ReadOnly THEN RejectReadOnly
    ELSE IF r.query = <<>> THEN Reject("query parameter is required", e)
    ELSE RunWrite(r.query, FALSE, e)

HandleAlterTable(r, e) ==
    IF ReadOnly THEN RejectReadOnly
    ELSE IF r.query = <<>> THEN Reject("query parameter is required", e)
    ELSE RunWrite(r.query, FALSE, e)

HandleCreateIndex(r, e) ==
    IF ReadOnly THEN RejectReadOnly
    ELSE IF r.query = <<>> THEN Reject("query parameter is required", e)
    ELSE RunWrite(r.query, FALSE, e)

\* A fault of HandleDropIndex: no mode check.
HandleDropIndex_NoModeCheck(r, e) ==
    LET indexName == getStringParam(r.name, <<>>)
        schema == getStringParam(r.schema, <<>>)
    IN  IF indexName = <<>> THEN Reject("index_name parameter is required", e)
        ELSE RunWrite(S_DROP_INDEX_SP
                          \o (IF schema # <<>> THEN schema \o S_DOT ELSE <<>>)
                          \o indexName, FALSE, e)

HandleDropIndex(r, e) ==
    LET indexName == getStringParam(r.name, <<>>)
        schema == getStringParam(r.schema, <<>>)
    IN  IF ReadOnly THEN RejectReadOnly
        ELSE IF indexName = <<>> THEN Reject("index_name parameter is required", e)
        ELSE RunWrite(S_DROP_INDEX_SP
                          \o (IF schema # <<>> THEN schema \o S_DOT ELSE <<>>)
                          \o indexName, FALSE, e)

HandleAnalyzeTable(r, e) ==
    LET tableName == getStringParam(r.name, <<>>)
    IN  IF ReadOnly THEN RejectReadOnly
        ELSE IF tableName = <<>> THEN Reject("table_name parameter is required", e)
        ELSE RunWrite(S_ANALYZE_SP \o getStringParam(r.schema, S_public)
                          \o S_DOT \o tableName, FALSE, e)

\* ------------------------- handlers of the pgx variant (part_003, 449-958)
handleReadQuery(r, e) ==
    IF r.query = <<>> THEN Reject("query parameter is required", e)
    ELSE IF ~isReadOnlyQuery(r.query)
    THEN Reject("only SELECT queries are allowed", e)
    ELSE RunRead(addLimit(r.query, getNumberParam(r.limit, DefaultLimit)), e)

handleCountQuery(r, e) ==
    LET base == S_COUNT_FROM \o getStringParam(r.schema, S_public) \o S_DOT
                    \o getStringParam(r.name, <<>>)
        query == IF r.where # <<>> THEN base \o S_WHERE_SP \o r.where ELSE base
    IN  RunRead(query, e)

handleExplainQuery(r, e) ==
    RunRead(S_EXPLAIN \o (IF r.analyze THEN S_ANALYZE ELSE <<>>)
                \o (IF r.buffers THEN S_BUFFERS ELSE <<>>)
                \o S_SP \o r.query, e)

handleWriteQuery(r, e) ==
    IF ReadOnly THEN RejectReadOnly ELSE RunWrite(r.query, r.returnID, e)

handleUpdateQuery(r, e) ==
    IF ReadOnly THEN RejectReadOnly
    ELSE IF missingWhere(r.query, r.force)
    THEN Reject("UPDATE queries must include a WHERE clause. Use force=true to override", e)
    ELSE RunWrite(r.query, FALSE, e)

handleDeleteQuery(r, e) ==
    IF ReadOnly THEN RejectReadOnly
    ELSE IF missingWhere(r.query, r.force)
    THEN Reject("DELETE queries must include a WHERE clause. Use force=true to override", e)
    ELSE RunWrite(r.query, FALSE, e)

handleCreateTable(r, e) ==
    IF ReadOnly THEN RejectReadOnly ELSE RunWrite(r.query, FALSE, e)

handleAlterTable(r, e) ==
    IF ReadOnly THEN RejectReadOnly ELSE RunWrite(r.query, FALSE, e)

handleCreateIndex(r, e) ==
    IF ReadOnly THEN RejectReadOnly ELSE RunWrite(r.query, FALSE, e)

handleDropIndex(r, e) ==
    LET indexName == getStringParam(r.name, <<>>)
        schema == getStringParam(r.schema, <<>>)
    IN  IF ReadOnly THEN RejectReadOnly
        ELSE RunWrite(S_DROP_INDEX_SP
                          \o (IF schema # <<>> THEN schema \o S_DOT ELSE <<>>)
                          \o indexName, FALSE, e)

handleAnalyzeTable(r, e) ==
    IF ReadOnly THEN RejectReadOnly
    ELSE RunWrite(S_ANALYZE_SP \o getStringParam(r.schema, S_public) \o S_DOT
                      \o getStringParam(r.name, <<>>), FALSE, e)

\* --------------------------------- the sqlx variant (part_003, 1180-1835)
StatementTypeNoExplainCheck == ""
StatementTypeSelect == "SELECT"
StatementTypeInsert == "INSERT"
StatementTypeUpdate == "UPDATE"
StatementTypeDelete == "DELETE"

\* GetDB: the handle when there is one, else one sqlx.Connect
GetDB(db, e) ==
    IF db # "nil" THEN [ok |-> TRUE, db |-> db]
    ELSE IF e.connOk THEN [ok |-> TRUE, db |-> "open"]
    ELSE [ok |-> FALSE, db |-> "nil"]

\* HandleExplain: EXPLAIN <query> through the handle; only whether it
\* fails matters
HandleExplain(query, expect, db, e) ==
    IF ~WithExplainCheck THEN [ok |-> TRUE, sent |-> <<>>]
    ELSE IF ~GetDB(db, e).ok THEN [ok |-> FALSE, sent |-> <<>>]
    ELSE [ok |-> e.exOk,
          sent |-> <<Stmt(S_EXPLAIN_SP \o query, "query", e.exOk, 0)>>]

\* A fault of preflight: the expected statement kind is not looked at.
preflight_AnyKind(query, expect, db, e) ==
    IF WithExplainCheck
    THEN HandleExplain(query, expect, db, e)
    ELSE [ok |-> TRUE, sent |-> <<>>]

\* The pre-flight of DoQuery and HandleExec
preflight(query, expect, db, e) ==
    IF expect # "" /\ WithExplainCheck
    THEN HandleExplain(query, expect, db, e)
    ELSE [ok |-> TRUE, sent |-> <<>>]

\* HandleQuery: DoQuery (GetDB, the pre-flight, db.Queryx), then MapToCSV
HandleQuery(query, expect, e) ==
    LET g == GetDB(DB, e)
        x == preflight(query, expect, g.db, e)
    IN  IF ~g.ok
        THEN OutDB(ErrorResp("failed to establish database connection", 0),
                   <<>>, g.db)
        ELSE IF ~x.ok
        THEN OutDB(ErrorResp("db error", Len(x.sent)), x.sent, g.db)
        ELSE IF ~e.dbOk
        THEN OutDB(ErrorResp("db error", Len(x.sent) + 1),
                   x.sent \o <<Stmt(query, "query", FALSE, 0)>>, g.db)
        ELSE OutDB(TextResp("result", 0),
                   x.sent \o <<Stmt(query, "query", TRUE, 0)>>, g.db)

\* A fault of HandleExec: the error of the pre-flight dropped.
HandleExec_IgnoreExplainErr(query, expect, e) ==
    LET g == GetDB(DB, e)
        x == preflight(query, expect, g.db, e)
    IN  IF ~g.ok
        THEN OutDB(ErrorResp("failed to establish database connection", 0),
                   <<>>, g.db)
        ELSE IF ~e.dbOk
        THEN OutDB(ErrorResp("db error", Len(x.sent) + 1),
                   x.sent \o <<Stmt(query, "exec", FALSE, 0)>>, g.db)
        ELSE OutDB(TextResp("rows affected", e.rows),
                   x.sent \o <<Stmt(query, "exec", TRUE, e.rows)>>, g.db)

\* HandleExec: GetDB, the pre-flight, db.Exec, "%d rows affected"
HandleExec(query, expect, e) ==
    LET g == GetDB(DB, e)
        x == preflight(query, expect, g.db, e)
    IN  IF ~g.ok
        THEN OutDB(ErrorResp("failed to establish database connection", 0),
                   <<>>, g.db)
        ELSE IF ~x.ok
        THEN OutDB(ErrorResp("db error", Len(x.sent)), x.sent, g.db)
        ELSE IF ~e.dbOk
        THEN OutDB(ErrorResp("db error", Len(x.sent) + 1),
                   x.sent \o <<Stmt(query, "exec", FALSE, 0)>>, g.db)
        ELSE OutDB(TextResp("rows affected", e.rows),
                   x.sent \o <<Stmt(query, "exec", TRUE, e.rows)>>, g.db)

readQueryTool(r, e) ==
    LET upperQuery == ToUpper(TrimSpace(r.query))
        limit == getNumberParam(r.limit, DefaultLimit)
    IN  IF ~HasPrefix(upperQuery, KW_SELECT) /\ ~HasPrefix(upperQuery, KW_WITH)
        THEN OutDB(ErrorResp("Only SELECT queries are allowed", 0), <<>>, DB)
        ELSE HandleQuery(IF ~Contains(upperQuery, KW_LIMIT)
                         THEN r.query \o S_LIMIT \o Itoa(IntOf(limit))
                         ELSE r.query, StatementTypeSelect, e)

explainQueryTool(r, e) ==
    HandleQuery(S_EXPLAIN \o (IF r.analyze THEN S_ANALYZE ELSE <<>>)
                    \o S_SP \o r.query, StatementTypeNoExplainCheck, e)

countQueryTool(r, e) ==
    LET base == S_COUNT_FROM \o getStringParam(r.schema, S_public) \o S_DOT
                    \o getStringParam(r.name, <<>>)
    IN  HandleQuery(IF r.where # <<>> THEN base \o S_WHERE_SP \o r.where ELSE base,
                    StatementTypeNoExplainCheck, e)

writeQueryTool(r, e) == HandleExec(r.query, StatementTypeInsert, e)

updateQueryTool(r, e) ==
    IF ~Contains(ToUpper(r.query), KW_WHERE)
    THEN OutDB(ErrorResp("UPDATE queries must include a WHERE clause for safety", 0),
               <<>>, DB)
    ELSE HandleExec(r.query, StatementTypeUpdate, e)

deleteQueryTool(r, e) ==
    IF ~Contains(ToUpper(r.query), KW_WHERE)
    THEN OutDB(ErrorResp("DELETE queries must include a WHERE clause for safety", 0),
               <<>>, DB)
    ELSE HandleExec(r.query, StatementTypeDelete, e)

createTableTool(r, e) == HandleExec(r.query, StatementTypeNoExplainCheck, e)

listTableTool(r, e) ==
    LET schema == getStringParam(r.schema, <<>>)
    IN  HandleQuery(S_LIST_TABLES_SQLX
                        \o (IF schema # <<>>
                            THEN S_SP \o S_WHERE_table_schema \o Quoted(schema)
                            ELSE <<>>)
                        \o S_ORDER_TABLES, StatementTypeNoExplainCheck, e)

listIndexesTool(r, e) ==
    LET tableName == getStringParam(r.name, <<>>)
        schema == getStringParam(r.schema, <<>>)
        c1 == IF tableName # <<>> THEN <<S_tablename \o Quoted(tableName)>> ELSE <<>>
        conditions ==
            c1 \o (IF schema # <<>> THEN <<S_schemaname \o Quoted(schema)>> ELSE <<>>)
        joined == IF Len(conditions) = 2
                  THEN conditions[1] \o S_AND \o conditions[2]
                  ELSE IF Len(conditions) = 1 THEN conditions[1] ELSE <<>>
    IN  HandleQuery(S_LIST_INDEXES_SQLX
                        \o (IF Len(conditions) > 0 THEN S_WHERE_SP \o joined ELSE <<>>)
                        \o S_ORDER_INDEXES, StatementTypeNoExplainCheck, e)

alterTableTool(r, e) == HandleExec(r.query, StatementTypeNoExplainCheck, e)

createIndexTool(r, e) == HandleExec(r.query, StatementTypeNoExplainCheck, e)

\* ------------------------------------------------------------ the machine
Requests == 1..NumRequests

NoReq == BaseReq("none")

\* One statement execution before it starts: where it stands (pc), the
\* connections it holds (held), which executor runs it (kind), the expected
\* statement kind of the sqlx variant (expect), whether a deadline is armed
\* and has passed, whether the pre-flight ran, the columns of the result
\* metadata, the rows the database has still to deliver, the rows built so
\* far, whether the cursor ended on an error, and what the executor returned.
XIdle ==
    [pc |-> "idle", held |-> 0, kind |-> "none", expect |-> "",
     deadline |-> FALSE, expired |-> FALSE, explained |-> FALSE,
     cols |-> <<>>, remaining |-> 0, rows |-> <<>>, cursorErr |-> FALSE,
     res |-> [kind |-> "none"]]

\* The concurrent requests of the metrics model, and one at rest.
Procs == 1..NumProcs
TaskIdle == [op |-> "none", at |-> "idle", tmp |-> 0, qe |-> 0, errs |-> 0,
             t |-> 0, qe2 |-> 0]

\* The callers of GetDB before any call: the handle the global DB points to
\* (0 is nil), the handles sqlx.Connect has made, the calls started, and per
\* caller its place in GetDB, its local db and the handle it was given.
ConnIdle ==
    [DB |-> 0, made |-> 0, calls |-> 0,
     at |-> [p \in Procs |-> "idle"],
     db |-> [p \in Procs |-> 0],
     got |-> [p \in Procs |-> 0]]

\* The process once the pool is up and the signal handler is installed: the
\* transport (none before the loop is entered), whether a signal was
\* delivered, whether the handler's cancel() has run, whether the serving loop runs, whether dbPool.Close() has
\* returned, and each request's state (a running or cancelled one holds its
\* lease).
SdIdle ==
    [transport |-> "none", signalled |-> FALSE, ctxDone |-> FALSE,
     serving |-> TRUE, poolClosed |-> FALSE,
     inflight |-> [p \in Procs |-> "none"]]

\* No result yet: the format selected (sel), the QueryResult (res), how many
\* times it was formatted, and for each time the iteration order the row
\* maps had and the output, line by line.
FmIdle ==
    [sel |-> "none",
     res |-> [Rows |-> <<>>, Columns |-> <<>>, Count |-> 0, Timing |-> ""],
     done |-> 0, o1 |-> <<>>, o2 |-> <<>>, out1 |-> <<>>, out2 |-> <<>>]

\* The connection strings a server is started with: none, one that does
\* not parse, one that parses.
DSNs == {"", "bad", "ok"}

\* initDatabase: the DSN is required and must parse, the pool must be
\* created and must answer the ping (up: the database is reachable).
initDatabase(dsn, up) ==
    IF dsn = "" THEN "DSN is required"
    ELSE IF dsn = "bad" THEN "failed to parse DSN"
    ELSE IF ~up THEN "failed to ping database"
    ELSE "nil"

\* The statistics payload: nothing yet.
NoStats == [kind |-> "none"]

\* After construction (NewPostgresMCPServer / the flags parsed): the
\* configuration is read, the metrics are zero, nothing is connected and no
\* tool is registered yet.
InitConfig ==
    /\ variant \in Variants
    /\ ReadOnly \in BOOLEAN
    /\ WithExplainCheck \in BOOLEAN
    /\ QueriesExecuted = 0
    /\ QueryErrors = 0
    /\ TotalResponseTime = 0
    /\ dbCalls = 0
    /\ nreq = 0
    /\ req = NoReq
    /\ resp = NoResp
    /\ sent = <<>>
    /\ pc = [r \in Requests |-> "new"]
    /\ leases = {}
    /\ stats = NoStats
    /\ xq = XIdle
    /\ mu = [writer |-> 0, readers |-> {}]
    /\ task = [p \in Procs |-> TaskIdle]
    /\ ops = 0
    /\ conn = ConnIdle
    /\ sd = SdIdle
    /\ fm = FmIdle

Init ==
    /\ InitConfig
    /\ DSN \in DSNs
    /\ phase = "starting"
    /\ tools = {}
    /\ DB = "nil"

\* What the requests leave alone: the state of the step-level models.
Aside == <<pc, leases, xq, mu, task, ops, conn, sd, fm>>

\* Start / runServer / main.  The pgx variants connect first and give up
\* when that fails; the sqlx variant registers its tools and serves without
\* connecting.
StartUp ==
    /\ phase = "starting"
    /\ \E up \in BOOLEAN :
          IF variant = "sqlx"
          THEN /\ phase' = "serving"
               /\ tools' = sqlxMain(ReadOnly)
               /\ DB' = "nil"
          ELSE IF initDatabase(DSN, up) = "nil"
          THEN /\ phase' = "serving"
               /\ tools' = createMCPServer(ReadOnly)
               /\ DB' = "pool"
          ELSE /\ phase' = "exited"
               /\ tools' = {}
               /\ DB' = "nil"
    /\ UNCHANGED <<variant, ReadOnly, WithExplainCheck, QueriesExecuted,
                   QueryErrors, TotalResponseTime, dbCalls, nreq, req, resp,
                   sent, DSN, stats>>
    /\ UNCHANGED Aside

\* sqlx.Connect cannot succeed on a DSN that is missing or does not parse.
Envs ==
    IF variant = "sqlx" THEN {e \in SqlxEnvs : e.connOk => DSN = "ok"}
    ELSE PgxEnvs

\* The closures of the sqlx variant exist only when main() registered
\* them; the handlers of the other variants are functions of their own, each
\* opening with its own read-only test.
Callable(tool) == IF variant = "sqlx" THEN tool \in tools ELSE TRUE

\* One request handled to its response.
Apply(r, out) ==
    /\ phase = "serving"
    /\ nreq < MaxRequests
    /\ Callable(r.tool)
    /\ req' = r
    /\ resp' = out.resp
    /\ sent' = out.sent
    /\ QueriesExecuted' = QueriesExecuted + out.m.exec
    /\ QueryErrors' = QueryErrors + out.m.err
    /\ TotalResponseTime' = TotalResponseTime + out.m.time
    /\ dbCalls' = dbCalls + Len(out.sent)
    /\ DB' = out.db
    /\ nreq' = nreq + 1
    /\ stats' = IF "stats" \in DOMAIN out THEN out.stats ELSE NoStats
    /\ UNCHANGED <<variant, ReadOnly, WithExplainCheck, tools, phase, DSN>>
    /\ UNCHANGED Aside

ReadQuery ==
    \E q \in ReadTexts, l \in Limits, e \in Envs :
        LET r == [BaseReq("read_query") EXCEPT !.query = q, !.limit = l]
        IN  Apply(r, CASE variant = "handlers" -> HandleReadQuery(r, e)
                       [] variant = "pgx" -> handleReadQuery(r, e)
                       [] variant = "sqlx" -> readQueryTool(r, e))

CountQuery ==
    \E n \in Names, sc \in Schemas, w \in Wheres, e \in Envs :
        LET r == [BaseReq("count_query") EXCEPT !.name = n, !.schema = sc,
                                                 !.where = w]
        IN  Apply(r, CASE variant = "handlers" -> HandleCountQuery(r, e)
                       [] variant = "pgx" -> handleCountQuery(r, e)
                       [] variant = "sqlx" -> countQueryTool(r, e))

ExplainQuery ==
    \E q \in ExplainTexts, a \in BOOLEAN, b \in BOOLEAN, e \in Envs :
        LET r == [BaseReq("explain_query") EXCEPT !.query = q, !.analyze = a,
                                                   !.buffers = b]
        IN  Apply(r, CASE variant = "handlers" -> HandleExplainQuery(r, e)
                       [] variant = "pgx" -> handleExplainQuery(r, e)
                       [] variant = "sqlx" -> explainQueryTool(r, e))

WriteQuery ==
    \E q \in WriteTexts, rid \in BOOLEAN, e \in Envs :
        LET r == [BaseReq("write_query") EXCEPT !.query = q, !.returnID = rid]
        IN  Apply(r, CASE variant = "handlers" -> HandleWriteQuery(r, e)
                       [] variant = "pgx" -> handleWriteQuery(r, e)
                       [] variant = "sqlx" -> writeQueryTool(r, e))

UpdateQuery ==
    \E q \in UpdateTexts, f \in BOOLEAN, e \in Envs :
        LET r == [BaseReq("update_query") EXCEPT !.query = q, !.force = f]
        IN  Apply(r, CASE variant = "handlers" -> HandleUpdateQuery(r, e)
                       [] variant = "pgx" -> handleUpdateQuery(r, e)
                       [] variant = "sqlx" -> updateQueryTool(r, e))

DeleteQuery ==
    \E q \in DeleteTexts, f \in BOOLEAN, e \in Envs :
        LET r == [BaseReq("delete_query") EXCEPT !.query = q, !.force = f]
        IN  Apply(r, CASE variant = "handlers" -> HandleDeleteQuery(r, e)
                       [] variant = "pgx" -> handleDeleteQuery(r, e)
                       [] variant = "sqlx" -> deleteQueryTool(r, e))

CreateTable ==
    \E q \in DDLTexts, e \in Envs :
        LET r == [BaseReq("create_table") EXCEPT !.query = q]
        IN  Apply(r, CASE variant = "handlers" -> HandleCreateTable(r, e)
                       [] variant = "pgx" -> handleCreateTable(r, e)
                       [] variant = "sqlx" -> createTableTool(r, e))

AlterTable ==
    \E q \in DDLTexts, e \in Envs :
        LET r == [BaseReq("alter_table") EXCEPT !.query = q]
        IN  Apply(r, CASE variant = "handlers" -> HandleAlterTable(r, e)
                       [] variant = "pgx" -> handleAlterTable(r, e)
                       [] variant = "sqlx" -> alterTableTool(r, e))

CreateIndex ==
    \E q \in DDLTexts, e \in Envs :
        LET r == [BaseReq("create_index") EXCEPT !.query = q]
        IN  Apply(r, CASE variant = "handlers" -> HandleCreateIndex(r, e)
                       [] variant = "pgx" -> handleCreateIndex(r, e)
                       [] variant = "sqlx" -> createIndexTool(r, e))

\* drop_index and analyze_table exist in the pgx variants only.
DropIndex ==
    \E n \in Names, sc \in Schemas, e \in Envs :
        LET r == [BaseReq("drop_index") EXCEPT !.name = n, !.schema = sc]
        IN  /\ variant # "sqlx"
            /\ Apply(r, IF variant = "handlers" THEN HandleDropIndex(r, e)
                                                ELSE handleDropIndex(r, e))

AnalyzeTable ==
    \E n \in Names, sc \in Schemas, e \in Envs :
        LET r == [BaseReq("analyze_table") EXCEPT !.name = n, !.schema = sc]
        IN  /\ variant # "sqlx"
            /\ Apply(r, IF variant = "handlers" THEN HandleAnalyzeTable(r, e)
                                                ELSE handleAnalyzeTable(r, e))

\* float64(a) / float64(b): a number, or NaN / +Inf on a zero divisor
FloatDiv(a, b) ==
    IF b # 0 THEN [kind |-> "num", num |-> a, den |-> b]
    ELSE IF a = 0 THEN [kind |-> "NaN", num |-> 0, den |-> 0]
    ELSE [kind |-> "Inf", num |-> a, den |-> 0]

\* json.MarshalIndent of the stats map, its error dropped: a NaN or an
\* infinity is no JSON value, the bytes are nil and the payload is empty.
MarshalStats(exec, errs, hasAvg, avg) ==
    IF hasAvg /\ avg.kind # "num" THEN [kind |-> "empty"]
    ELSE [kind |-> "json", queries_executed |-> exec, query_errors |-> errs,
          hasAvg |-> hasAvg, avg |-> avg]

StatsOut(payload, e) ==
    [resp |-> [TextResp("stats", 0) EXCEPT
                   !.text = IF payload.kind = "empty" THEN <<>> ELSE <<"stats">>],
     sent |-> <<>>, m |-> updateMetrics(M0, e.dh), db |-> DB, stats |-> payload]

\* HandleGetStats: the average only when a query was executed
HandleGetStats(r, e) ==
    StatsOut(MarshalStats(QueriesExecuted, QueryErrors, QueriesExecuted > 0,
                          FloatDiv(TotalResponseTime, QueriesExecuted)), e)

\* handleGetStats: the average always
handleGetStats(r, e) ==
    StatsOut(MarshalStats(QueriesExecuted, QueryErrors, TRUE,
                          FloatDiv(TotalResponseTime, QueriesExecuted)), e)

\* The statistics query of get_slow_queries up to its LIMIT, as one piece.
S_SLOW == <<"SELECT query, calls, ... FROM pg_stat_statements ORDER BY total_time DESC LIMIT ">>

SlowLimit == 10

\* HandleGetSlowQueries / handleGetSlowQueries: any failure of the
\* statistics query becomes the fixed message.
HandleGetSlowQueries(r, e) ==
    LET x == executeQuery(S_SLOW \o Itoa(IntOf(getNumberParam(r.limit, SlowLimit))), e)
    IN  IF ~x.ok
        THEN Out(TextResp("pg_stat_statements extension not available", 0),
                 x.sent, updateMetrics(x.m, e.dh))
        ELSE Out(TextResp("result", 0), x.sent, updateMetrics(x.m, e.dh))

\* The errors executeQuery can return for the statistics query: the relation
\* pg_stat_statements does not exist (the extension is absent), the deadline
\* passed, or the pool gave no connection.
SlowFailures == {"undefined_table", "timeout", "pool"}

\* The error err of a failed statement, which the handler does not look at.
Blame(out, cause) ==
    [out EXCEPT !.sent = [i \in DOMAIN @ |->
                            IF @[i].ok THEN @[i] ELSE [@[i] EXCEPT !.why = cause]]]

\* get_stats and get_slow_queries exist in the pgx variants only.
GetStats ==
    \E e \in Envs :
        LET r == BaseReq("get_stats")
        IN  /\ variant # "sqlx"
            /\ Apply(r, IF variant = "handlers" THEN HandleGetStats(r, e)
                                                ELSE handleGetStats(r, e))

ListTables ==
    \E sc \in Schemas, e \in Envs :
        LET r == [BaseReq("list_tables") EXCEPT !.schema = sc]
        IN  Apply(r, IF variant = "sqlx" THEN listTableTool(r, e)
                                         ELSE HandleListTables(r, e))

ListIndexes ==
    \E n \in Names, sc \in Schemas, e \in Envs :
        LET r == [BaseReq("list_indexes") EXCEPT !.name = n, !.schema = sc]
        IN  Apply(r, CASE variant = "handlers" -> HandleListIndexes(r, e)
                       [] variant = "pgx" -> handleListIndexes(r, e)
                       [] variant = "sqlx" -> listIndexesTool(r, e))

GetSlowQueries ==
    \E l \in Limits, e \in Envs, cause \in SlowFailures :
        LET r == [BaseReq("get_slow_queries") EXCEPT !.limit = l]
        IN  /\ variant # "sqlx"
            /\ Apply(r, Blame(HandleGetSlowQueries(r, e), cause))

Next ==
    \/ StartUp
    \/ GetStats
    \/ GetSlowQueries
    \/ ListTables
    \/ ListIndexes
    \/ ReadQuery
    \/ CountQuery
    \/ ExplainQuery
    \/ WriteQuery
    \/ UpdateQuery
    \/ DeleteQuery
    \/ CreateTable
    \/ AlterTable
    \/ CreateIndex
    \/ DropIndex
    \/ AnalyzeTable

Spec == Init /\ [][Next]_vars

\* ----------------------------------------- concurrent requests and the pool
\* The pgx variants serve each request on a goroutine of its own, all
\* sharing one pgxpool whose size initDatabase sets.
\* A fault of the pool's size: one connection more than configured.
MaxConns_OneMore == MaxConnections + 1

MaxConns == MaxConnections

\* The statement every concurrent request submits.
PoolQuery == addLimit(T_select, getNumberParam(AbsentArg, DefaultLimit))

\* The pgx variants serving: initDatabase succeeded.
PoolInit ==
    /\ InitConfig
    /\ variant # "sqlx"
    /\ DSN = "ok"
    /\ phase = "serving"
    /\ tools = createMCPServer(ReadOnly)
    /\ DB = "pool"

\* The request's metric increments reach the shared metrics.
PoolMetrics(m) ==
    /\ QueriesExecuted' = QueriesExecuted + m.exec
    /\ QueryErrors' = QueryErrors + m.err
    /\ TotalResponseTime' = TotalResponseTime + m.time

PoolFrame ==
    UNCHANGED <<variant, ReadOnly, WithExplainCheck, tools, dbCalls, nreq,
                req, resp, sent, DB, phase, DSN, stats, xq, mu, task, ops,
                conn, sd, fm>>

\* handleReadQuery admits the statement and executeQuery calls
\* dbPool.Query under its context.WithTimeout: the request waits for a
\* connection.
PoolBegin(r) ==
    /\ pc[r] = "new"
    /\ pc' = [pc EXCEPT ![r] = "acquiring"]
    /\ UNCHANGED <<leases, QueriesExecuted, QueryErrors, TotalResponseTime>>
    /\ PoolFrame

\* The pool hands out a connection while fewer than MaxConns are leased.
PoolAcquire(r) ==
    /\ pc[r] = "acquiring"
    /\ Cardinality(leases) < MaxConns
    /\ pc' = [pc EXCEPT ![r] = "querying"]
    /\ leases' = leases \cup {r}
    /\ UNCHANGED <<QueriesExecuted, QueryErrors, TotalResponseTime>>
    /\ PoolFrame

\* The context's deadline passes while the request waits: dbPool.Query
\* returns the error, executeQuery and handleError count it.
PoolAcquireTimeout(r) ==
    /\ pc[r] = "acquiring"
    /\ \E e \in PgxEnvs :
          /\ ~e.dbOk
          /\ PoolMetrics(RunRead(PoolQuery, e).m)
    /\ pc' = [pc EXCEPT ![r] = "failed"]
    /\ UNCHANGED leases
    /\ PoolFrame

\* The statement fails or its deadline passes on the connection: the
\* connection goes back to the pool and the error is counted.
PoolQueryError(r) ==
    /\ pc[r] = "querying"
    /\ \E e \in PgxEnvs :
          /\ ~e.dbOk
          /\ PoolMetrics(RunRead(PoolQuery, e).m)
    /\ pc' = [pc EXCEPT ![r] = "failed"]
    /\ leases' = leases \ {r}
    /\ PoolFrame

\* The rows are read, the metrics updated, and the deferred rows.Close()
\* gives the connection back as executeQuery returns.
PoolComplete(r) ==
    /\ pc[r] = "querying"
    /\ \E e \in PgxEnvs :
          /\ e.dbOk
          /\ PoolMetrics(RunRead(PoolQuery, e).m)
    /\ pc' = [pc EXCEPT ![r] = "done"]
    /\ leases' = leases \ {r}
    /\ PoolFrame

PoolStep(r) ==
    \/ PoolBegin(r)
    \/ PoolAcquire(r)
    \/ PoolAcquireTimeout(r)
    \/ PoolQueryError(r)
    \/ PoolComplete(r)

PoolNext == \E r \in Requests : PoolStep(r)

\* Every goroutine is scheduled, the database answers or the deadline of
\* context.WithTimeout fires: a request that can step eventually does.
PoolFairness == \A r \in Requests : WF_vars(PoolStep(r))

PoolSpec == PoolInit /\ [][PoolNext]_vars /\ PoolFairness

\* ------------------------------------------- one execution, step by step
\* executeQuery / executeQueryWithParams / executeWriteQuery of the pgx
\* variants and DoQuery / HandleExec of the sqlx variant, one driver call
\* at a time.
ExecKinds == {"read", "params", "write"}

\* The column names the result metadata can carry, in database order.
ColumnLists == {<<"a">>, <<"a", "b">>, <<"a", "a">>}

\* The values of one row, by column position.
RowValues(cols) == [i \in 1..Len(cols) |-> i]

RangeOf(q) == {q[i] : i \in DOMAIN q}

\* row := make(map); for i, value := range values { row[columnNames[i]] = value }
\* a later column of the same name overwrites the earlier one
MakeRow(cols, values) ==
    [c \in RangeOf(cols) |->
        values[CHOOSE i \in DOMAIN cols :
                  /\ cols[i] = c
                  /\ \A j \in DOMAIN cols : cols[j] = c => j <= i]]

\* &QueryResult{Rows: result, Columns: columnNames, Count: len(result)}
QueryResult(rows, cols) ==
    [kind |-> "result", Rows |-> rows, Columns |-> cols, Count |-> Len(rows)]

ExecError(e) == [kind |-> "error", err |-> e]

\* A fault of closeRows: the cursor is never closed.
closeRows_Leak(held) == held

\* defer rows.Close(): the connection of the cursor goes back
closeRows(held) == held - 1

\* The server serving, before the execution starts.
ExecInit ==
    /\ InitConfig
    /\ DSN = "ok"
    /\ phase = "serving"
    /\ tools = IF variant = "sqlx" THEN sqlxMain(ReadOnly)
                                   ELSE createMCPServer(ReadOnly)
    /\ DB \in IF variant = "sqlx" THEN {"nil", "open"} ELSE {"pool"}

ExecFrame ==
    UNCHANGED <<variant, ReadOnly, WithExplainCheck, tools, dbCalls, nreq,
                req, resp, sent, phase, DSN, stats, pc, leases, mu, task,
                ops, conn, sd, fm>>

ExecMetrics(m) ==
    /\ QueriesExecuted' = QueriesExecuted + m.exec
    /\ QueryErrors' = QueryErrors + m.err
    /\ TotalResponseTime' = TotalResponseTime + m.time

\* The metrics the pgx executors keep; the sqlx variant keeps none.
ExecCount(m) == IF variant = "sqlx" THEN M0 ELSE m

\* The executor is entered.  The pgx executors arm context.WithTimeout;
\* DoQuery and HandleExec call GetDB and decide on the pre-flight.
ExecStart ==
    /\ xq.pc = "idle"
    /\ \E k \in ExecKinds, ex \in {StatementTypeNoExplainCheck, StatementTypeSelect},
          c \in BOOLEAN :
          IF variant # "sqlx"
          THEN /\ ex = StatementTypeNoExplainCheck /\ c
               /\ xq' = [xq EXCEPT !.pc = "query", !.kind = k,
                                       !.deadline = TRUE]
               /\ DB' = DB
          ELSE /\ k # "params"
               /\ DB' = GetDB(DB, [connOk |-> c]).db
               /\ xq' =
                    IF ~GetDB(DB, [connOk |-> c]).ok
                    THEN [xq EXCEPT !.pc = "returned", !.kind = k,
                                      !.expect = ex,
                                      !.res = ExecError("connect")]
                    ELSE [xq EXCEPT !.kind = k, !.expect = ex,
                             !.pc = IF ex # "" /\ WithExplainCheck
                                    THEN "explain" ELSE "query"]
    /\ ExecMetrics(M0)
    /\ ExecFrame

\* HandleExplain: db.Queryx("EXPLAIN ...") opens a cursor ...
ExecExplainOpen ==
    /\ xq.pc = "explain"
    /\ xq' = [xq EXCEPT !.pc = "explained", !.held = @ + 1,
                            !.explained = TRUE]
    /\ ExecMetrics(M0)
    /\ UNCHANGED DB
    /\ ExecFrame

\* ... or fails, and the executor returns that error
ExecExplainFail ==
    /\ xq.pc = "explain"
    /\ xq' = [xq EXCEPT !.pc = "returned", !.explained = TRUE,
                            !.res = ExecError("explain")]
    /\ ExecMetrics(M0)
    /\ UNCHANGED DB
    /\ ExecFrame

\* HandleExplain returns nil; its deferred rows.Close() runs
ExecExplainReturn ==
    /\ xq.pc = "explained"
    /\ xq' = [xq EXCEPT !.pc = "query", !.held = closeRows(@)]
    /\ ExecMetrics(M0)
    /\ UNCHANGED DB
    /\ ExecFrame

\* The deadline of context.WithTimeout passes while the call is in flight.
ExecDeadline ==
    /\ xq.pc \in {"query", "rows"}
    /\ xq.deadline /\ ~xq.expired
    /\ xq' = [xq EXCEPT !.expired = TRUE]
    /\ ExecMetrics(M0)
    /\ UNCHANGED DB
    /\ ExecFrame

\* dbPool.Query / db.Queryx succeeds: the cursor holds a connection
ExecQueryOpen ==
    /\ xq.pc = "query" /\ xq.kind # "write" /\ ~xq.expired
    /\ \E cl \in ColumnLists, n \in 0..MaxResultRows :
          xq' = [xq EXCEPT !.pc = "rows", !.held = @ + 1, !.cols = cl,
                               !.remaining = n]
    /\ ExecMetrics(M0)
    /\ UNCHANGED DB
    /\ ExecFrame

\* dbPool.Query / dbPool.Exec / db.Queryx / db.Exec returns an error (the
\* deadline's, when it has passed): counted by the pgx executors
ExecQueryFail ==
    /\ xq.pc = "query"
    /\ xq' = [xq EXCEPT !.pc = "returned",
                   !.res = ExecError(IF xq.expired THEN "timeout" ELSE "db")]
    /\ ExecMetrics(ExecCount([err |-> 1, exec |-> 0, time |-> 0]))
    /\ UNCHANGED DB
    /\ ExecFrame

\* dbPool.Exec / db.Exec succeeds: the affected-row count
ExecWrite ==
    /\ xq.pc = "query" /\ xq.kind = "write" /\ ~xq.expired
    /\ \E n \in 0..MaxRows, d \in 0..MaxDur :
          /\ xq' = [xq EXCEPT !.pc = "returned",
                                  !.res = [kind |-> "affected", n |-> n]]
          /\ ExecMetrics(ExecCount([err |-> 0, exec |-> 1, time |-> d]))
    /\ UNCHANGED DB
    /\ ExecFrame

\* rows.Next() is true and the row decodes: one more row map
ExecRowNext ==
    /\ xq.pc = "rows" /\ xq.remaining > 0 /\ ~xq.expired
    /\ xq' = [xq EXCEPT !.remaining = @ - 1,
                   !.rows = Append(@, MakeRow(xq.cols, RowValues(xq.cols)))]
    /\ ExecMetrics(M0)
    /\ UNCHANGED DB
    /\ ExecFrame

\* rows.Values() / rows.SliceScan() fails: return nil, err
ExecRowDecodeError ==
    /\ xq.pc = "rows" /\ xq.remaining > 0 /\ ~xq.expired
    /\ xq' = [xq EXCEPT !.pc = "returned", !.held = closeRows(@),
                            !.res = ExecError("decode")]
    /\ ExecMetrics(M0)
    /\ UNCHANGED DB
    /\ ExecFrame

\* rows.Next() is false: the cursor is exhausted, or it broke (the
\* connection was lost, the deadline passed) with rows still to come.  The
\* loop ends either way, rows.Err() is not looked at, the result is built
\* from the rows read and returned, and the deferred rows.Close() runs.
ExecFinish ==
    /\ xq.pc = "rows"
    /\ \E broke \in BOOLEAN, d \in 0..MaxDur :
          /\ broke => xq.remaining > 0
          /\ xq.expired => (broke \/ xq.remaining = 0)
          /\ ~broke => (xq.remaining = 0 \/ xq.expired)
          /\ xq' = [xq EXCEPT !.pc = "returned", !.held = closeRows(@),
                         !.cursorErr = broke \/ (xq.expired /\ xq.remaining > 0),
                         !.res = QueryResult(xq.rows, xq.cols)]
          /\ ExecMetrics(ExecCount([err |-> 0, exec |-> 1, time |-> d]))
    /\ UNCHANGED DB
    /\ ExecFrame

ExecNext ==
    \/ ExecStart
    \/ ExecExplainOpen
    \/ ExecExplainFail
    \/ ExecExplainReturn
    \/ ExecDeadline
    \/ ExecQueryOpen
    \/ ExecQueryFail
    \/ ExecWrite
    \/ ExecRowNext
    \/ ExecRowDecodeError
    \/ ExecFinish

ExecSpec == ExecInit /\ [][ExecNext]_vars

\* --------------------------------------------- the metrics and their lock
\* The accesses to the metrics, one memory access at a time: the success
\* section of the executors ("success"), the error section of the executors
\* and handleError ("error"), updateMetrics ("update") and the read section
\* of handleGetStats ("stats"), which ends in its deferred updateMetrics.
MetricOps == {"success", "error", "update", "stats"}

\* A fault of CanLock: Lock never waits.
CanLock_Always(m) == TRUE

\* mu.Lock() goes through when nobody holds the mutex
CanLock(m) == m.writer = 0 /\ m.readers = {}

\* A fault of CanRLock: RLock does not wait for the writer.
CanRLock_Always(m) == TRUE

\* mu.RLock() goes through when no writer holds the mutex
CanRLock(m) == m.writer = 0

\* The first access of each write section.
FirstAccess(op) ==
    IF op = "success" THEN "ldQE" ELSE IF op = "error" THEN "ldErr" ELSE "ldT"

\* The server serving; the sqlx variant keeps no metrics.
LockInit ==
    /\ InitConfig
    /\ variant # "sqlx"
    /\ DSN = "ok"
    /\ phase = "serving"
    /\ tools = createMCPServer(ReadOnly)
    /\ DB = "pool"

LockFrame ==
    UNCHANGED <<variant, ReadOnly, WithExplainCheck, tools, dbCalls, nreq,
                req, resp, sent, DB, phase, DSN, stats, pc, leases, xq,
                conn, sd, fm>>

Metrics == <<QueriesExecuted, QueryErrors, TotalResponseTime>>

\* A request reaches one of the sections.
LockBegin(p) ==
    /\ task[p].at = "idle"
    /\ ops < MaxOps
    /\ \E op \in MetricOps :
          task' = [task EXCEPT ![p] =
                     [TaskIdle EXCEPT !.op = op,
                         !.at = IF op = "stats" THEN "rlock" ELSE "lock"]]
    /\ ops' = ops + 1
    /\ UNCHANGED <<mu, Metrics>>
    /\ LockFrame

\* mu.Lock()
Lock(p) ==
    /\ task[p].at = "lock"
    /\ CanLock(mu)
    /\ mu' = [mu EXCEPT !.writer = p]
    /\ task' = [task EXCEPT ![p].at = FirstAccess(task[p].op)]
    /\ UNCHANGED <<ops, Metrics>>
    /\ LockFrame

\* metrics.QueriesExecuted++ : the load ...
LoadQueriesExecuted(p) ==
    /\ task[p].at = "ldQE"
    /\ task' = [task EXCEPT ![p].tmp = QueriesExecuted, ![p].at = "stQE"]
    /\ UNCHANGED <<mu, ops, Metrics>>
    /\ LockFrame

\* ... and the store
StoreQueriesExecuted(p) ==
    /\ task[p].at = "stQE"
    /\ QueriesExecuted' = task[p].tmp + 1
    /\ task' = [task EXCEPT ![p].at = "ldT"]
    /\ UNCHANGED <<mu, ops, QueryErrors, TotalResponseTime>>
    /\ LockFrame

\* metrics.QueryErrors++ : the load ...
LoadQueryErrors(p) ==
    /\ task[p].at = "ldErr"
    /\ task' = [task EXCEPT ![p].tmp = QueryErrors, ![p].at = "stErr"]
    /\ UNCHANGED <<mu, ops, Metrics>>
    /\ LockFrame

\* ... and the store
StoreQueryErrors(p) ==
    /\ task[p].at = "stErr"
    /\ QueryErrors' = task[p].tmp + 1
    /\ task' = [task EXCEPT ![p].at = "unlock"]
    /\ UNCHANGED <<mu, ops, QueriesExecuted, TotalResponseTime>>
    /\ LockFrame

\* metrics.TotalResponseTime += time.Since(start) : the load ...
LoadTotalResponseTime(p) ==
    /\ task[p].at = "ldT"
    /\ task' = [task EXCEPT ![p].tmp = TotalResponseTime, ![p].at = "stT"]
    /\ UNCHANGED <<mu, ops, Metrics>>
    /\ LockFrame

\* ... and the store
StoreTotalResponseTime(p) ==
    /\ task[p].at = "stT"
    /\ \E d \in 0..MaxDur : TotalResponseTime' = task[p].tmp + d
    /\ task' = [task EXCEPT ![p].at = "unlock"]
    /\ UNCHANGED <<mu, ops, QueriesExecuted, QueryErrors>>
    /\ LockFrame

\* mu.Unlock()
Unlock(p) ==
    /\ task[p].at = "unlock"
    /\ mu' = [mu EXCEPT !.writer = 0]
    /\ task' = [task EXCEPT ![p] = TaskIdle]
    /\ UNCHANGED <<ops, Metrics>>
    /\ LockFrame

\* mu.RLock()
RLock(p) ==
    /\ task[p].at = "rlock"
    /\ CanRLock(mu)
    /\ mu' = [mu EXCEPT !.readers = @ \cup {p}]
    /\ task' = [task EXCEPT ![p].at = "rdQE"]
    /\ UNCHANGED <<ops, Metrics>>
    /\ LockFrame

\* The stats map is filled: queries_executed, query_errors, and for the
\* average the cumulative time and queries_executed once more.
ReadStats(p) ==
    /\ task[p].at \in {"rdQE", "rdErr", "rdT", "rdQE2"}
    /\ task' = [task EXCEPT ![p] =
          IF @.at = "rdQE" THEN [@ EXCEPT !.qe = QueriesExecuted, !.at = "rdErr"]
          ELSE IF @.at = "rdErr" THEN [@ EXCEPT !.errs = QueryErrors, !.at = "rdT"]
          ELSE IF @.at = "rdT" THEN [@ EXCEPT !.t = TotalResponseTime, !.at = "rdQE2"]
          ELSE [@ EXCEPT !.qe2 = QueriesExecuted, !.at = "runlock"]]
    /\ UNCHANGED <<mu, ops, Metrics>>
    /\ LockFrame

\* mu.RUnlock(); on return the deferred updateMetrics(start) runs
RUnlock(p) ==
    /\ task[p].at = "runlock"
    /\ mu' = [mu EXCEPT !.readers = @ \ {p}]
    /\ task' = [task EXCEPT ![p].op = "update", ![p].at = "lock"]
    /\ UNCHANGED <<ops, Metrics>>
    /\ LockFrame

LockNext ==
    \E p \in Procs :
        \/ LockBegin(p)
        \/ Lock(p)
        \/ LoadQueriesExecuted(p)
        \/ StoreQueriesExecuted(p)
        \/ LoadQueryErrors(p)
        \/ StoreQueryErrors(p)
        \/ LoadTotalResponseTime(p)
        \/ StoreTotalResponseTime(p)
        \/ Unlock(p)
        \/ RLock(p)
        \/ ReadStats(p)
        \/ RUnlock(p)

LockSpec == LockInit /\ [][LockNext]_vars

\* ------------------------------------------------- GetDB, step by step
\* GetDB of the sqlx variant called by concurrent requests; the global DB is
\* read and written without a lock, so each access is a step of its own.
GetDBInit ==
    /\ InitConfig
    /\ variant = "sqlx"
    /\ DSN \in DSNs
    /\ phase = "serving"
    /\ tools = sqlxMain(ReadOnly)
    /\ DB = "nil"

GetDBFrame ==
    UNCHANGED <<variant, ReadOnly, WithExplainCheck, tools, QueriesExecuted,
                QueryErrors, TotalResponseTime, dbCalls, nreq, req, resp, sent,
                phase, DSN, stats, pc, leases, xq, mu, task, ops, sd, fm>>

\* DoQuery / HandleExec / HandleExplain call GetDB: if DB != nil { return DB, nil }
GetDBCheck(p) ==
    /\ conn.at[p] = "idle"
    /\ conn.calls < MaxOps
    /\ conn' = IF conn.DB # 0
               THEN [conn EXCEPT !.calls = @ + 1, !.at[p] = "done",
                                 !.got[p] = conn.DB]
               ELSE [conn EXCEPT !.calls = @ + 1, !.at[p] = "connect"]
    /\ UNCHANGED DB
    /\ GetDBFrame

\* db, err := sqlx.Connect("pgx", DSN): a new handle, or the error returned
GetDBConnect(p) ==
    /\ conn.at[p] = "connect"
    /\ \E ok \in BOOLEAN :
          /\ ok => DSN = "ok"
          /\ conn' = IF ok
                     THEN [conn EXCEPT !.made = @ + 1, !.db[p] = conn.made + 1,
                                       !.at[p] = "store"]
                     ELSE [conn EXCEPT !.at[p] = "failed"]
    /\ UNCHANGED DB
    /\ GetDBFrame

\* DB = db
GetDBStore(p) ==
    /\ conn.at[p] = "store"
    /\ conn' = [conn EXCEPT !.DB = conn.db[p], !.at[p] = "return"]
    /\ DB' = "open"
    /\ GetDBFrame

\* return DB, nil
GetDBReturn(p) ==
    /\ conn.at[p] = "return"
    /\ conn' = [conn EXCEPT !.got[p] = conn.DB, !.at[p] = "done"]
    /\ UNCHANGED DB
    /\ GetDBFrame

\* The request is over; the next one of this caller calls GetDB again.
GetDBAgain(p) ==
    /\ conn.at[p] \in {"done", "failed"}
    /\ conn.calls < MaxOps
    /\ conn' = [conn EXCEPT !.at[p] = "idle", !.db[p] = 0, !.got[p] = 0]
    /\ UNCHANGED DB
    /\ GetDBFrame

GetDBNext ==
    \E p \in Procs :
        \/ GetDBCheck(p)
        \/ GetDBConnect(p)
        \/ GetDBStore(p)
        \/ GetDBReturn(p)
        \/ GetDBAgain(p)

GetDBSpec == GetDBInit /\ [][GetDBNext]_vars

\* ----------------------------------------------------------- shutdown
\* Start / runServer from the signal handler's installation to the exit of
\* the process, with the requests the serving loop has in flight.
Transports == {"stdio", "sse"}

ShutdownInit ==
    /\ InitConfig
    /\ variant # "sqlx"
    /\ DSN = "ok"
    /\ phase = "serving"
    /\ tools = createMCPServer(ReadOnly)
    /\ DB = "pool"

ShutdownFrame ==
    UNCHANGED <<variant, ReadOnly, WithExplainCheck, tools, QueriesExecuted,
                QueryErrors, TotalResponseTime, dbCalls, nreq, req, resp, sent,
                DB, phase, DSN, stats, pc, leases, xq, mu, task, ops, conn,
                fm>>

Leased(p) == sd.inflight[p] \in {"running", "cancelled"}

\* config.Transport selects the serving loop.
SdServe ==
    /\ sd.transport = "none"
    /\ \E t \in Transports : sd' = [sd EXCEPT !.transport = t]
    /\ ShutdownFrame

\* The serving loop hands a request to its handler, on a context of the
\* transport's own; the handler takes its lease.
SdRequest(p) ==
    /\ sd.serving /\ sd.transport \in Transports
    /\ sd.inflight[p] \in {"none", "done"}
    /\ sd' = [sd EXCEPT !.inflight[p] = "running"]
    /\ ShutdownFrame

\* A handler returns (its statement ended, or was cancelled) and gives its
\* lease back.
SdReturn(p) ==
    /\ Leased(p)
    /\ sd' = [sd EXCEPT !.inflight[p] = "done"]
    /\ ShutdownFrame

\* SIGINT or SIGTERM arrives: signal.Notify puts it into sigChan
SdSignal ==
    /\ ~sd.signalled
    /\ ~sd.poolClosed
    /\ sd' = [sd EXCEPT !.signalled = TRUE]
    /\ ShutdownFrame

\* go func() { <-sigChan; logger.Info(); cancel() }: the context of Start is
\* cancelled; no request context derives from it and neither serving loop
\* is given it
SdCancel ==
    /\ sd.signalled /\ ~sd.ctxDone
    /\ sd' = [sd EXCEPT !.ctxDone = TRUE]
    /\ ShutdownFrame

\* The serving loop returns: server.ServeStdio on the end of its input or on
\* the signal (it listens for it itself and cancels its requests' contexts),
\* sseServer.Start only when its listener fails, its requests going on.
SdServeReturn ==
    /\ sd.serving
    /\ sd.transport \in Transports
    /\ sd' = [sd EXCEPT !.serving = FALSE,
                 !.inflight = [p \in Procs |->
                     IF sd.transport = "stdio" /\ sd.signalled /\ @[p] = "running"
                     THEN "cancelled" ELSE @[p]]]
    /\ ShutdownFrame

\* defer dbPool.Close() on the return of Start: it waits for every lease
SdPoolClose ==
    /\ ~sd.serving /\ ~sd.poolClosed
    /\ \A p \in Procs : ~Leased(p)
    /\ sd' = [sd EXCEPT !.poolClosed = TRUE]
    /\ ShutdownFrame

ShutdownNext ==
    \/ SdServe
    \/ \E p \in Procs : SdRequest(p)
    \/ \E p \in Procs : SdReturn(p)
    \/ SdSignal
    \/ SdCancel
    \/ SdServeReturn
    \/ SdPoolClose

ShutdownSpec == ShutdownInit /\ [][ShutdownNext]_vars

\* ------------------------------------------------------------ formatting
\* formatResult, json.MarshalIndent of a QueryResult, and MapToCSV.  An
\* output is a sequence of lines, a line a sequence of pieces; w is the
\* width a piece is left-justified to (0: written as it is).
Tok(str) == [w |-> 0, s |-> str]
Cell(str) == [w |-> 20, s |-> str]

\* A cell value: nil (SQL NULL) or a value whose %v is s.
NilVal == [nil |-> TRUE, s |-> ""]
Val(str) == [nil |-> FALSE, s |-> str]
CellValues == {NilVal, Val("1")}

\* fmt's %v
Show(v) == IF v.nil THEN "<nil>" ELSE v.s

RECURSIVE Concat(_)
Concat(ss) == IF ss = <<>> THEN <<>> ELSE Head(ss) \o Concat(Tail(ss))

\* if i > 0 { WriteString(sep) }; WriteString(piece)
Separated(pieces, sep) ==
    Concat([i \in DOMAIN pieces |->
               IF i > 1 THEN <<sep, pieces[i]>> ELSE <<pieces[i]>>])

\* The orders in which ranging over a row map can deliver its keys.
Orders(cols) ==
    {o \in [1..Cardinality(RangeOf(cols)) -> RangeOf(cols)] :
        RangeOf(o) = RangeOf(cols)}

\* A fault of RowCells: the cells of a line taken by ranging over the row map.
RowCells_MapOrder(row, cols, order) ==
    [i \in DOMAIN order |->
        Cell(IF row[order[i]].nil THEN "NULL" ELSE row[order[i]].s)]

\* formatResult's data line: for i, col := range result.Columns, the cell
\* row[col], a nil one as NULL; the row map itself is not ranged over
RowCells(row, cols, order) ==
    [i \in DOMAIN cols |->
        Cell(IF row[cols[i]].nil THEN "NULL" ELSE row[cols[i]].s)]

\* formatResult
formatResult(result, order) ==
    IF Len(result.Rows) = 0
    THEN <<<<Tok("No results found.")>>,
           <<Tok("Execution time: "), Tok(result.Timing)>>>>
    ELSE <<<<Tok("Results: ")>>
               \o [i \in DOMAIN Itoa(result.Count) |-> Tok(Itoa(result.Count)[i])]
               \o <<Tok(" rows")>>,
           <<Tok("Execution time: "), Tok(result.Timing)>>,
           <<>>,
           Separated([i \in DOMAIN result.Columns |-> Cell(result.Columns[i])],
                     Tok(" | ")),
           Separated([i \in DOMAIN result.Columns |-> Tok("--------------------")],
                     Tok("-|-"))>>
         \o [i \in DOMAIN result.Rows |->
                Separated(RowCells(result.Rows[i], result.Columns, order),
                          Tok(" | "))]

\* encoding/json writes the keys of a map sorted, whatever order it met them in.
KeyRank(c) == IF c = "a" THEN 1 ELSE 2
SortedKeys(order) ==
    CHOOSE k \in [DOMAIN order -> RangeOf(order)] :
        /\ RangeOf(k) = RangeOf(order)
        /\ \A i, j \in DOMAIN k : i < j => KeyRank(k[i]) < KeyRank(k[j])

\* json.MarshalIndent(result, "", "  ")
MarshalResult(result, order) ==
    <<<<Tok("rows")>>>>
        \o [i \in DOMAIN result.Rows |->
               Concat([j \in DOMAIN SortedKeys(order) |->
                   <<Tok(SortedKeys(order)[j]),
                     Tok(IF result.Rows[i][SortedKeys(order)[j]].nil THEN "null"
                         ELSE result.Rows[i][SortedKeys(order)[j]].s)>>])]
        \o <<<<Tok("columns")>> \o [i \in DOMAIN result.Columns |-> Tok(result.Columns[i])],
             <<Tok("count")>>
                 \o [i \in DOMAIN Itoa(result.Count) |-> Tok(Itoa(result.Count)[i])],
             <<Tok("timing"), Tok(result.Timing)>>>>

\* MapToCSV: the header line, then one line per row; a key the row lacks is
\* an empty field, any other value its %v
MapToCSV(m, headers, order) ==
    <<Separated([i \in DOMAIN headers |-> Tok(headers[i])], Tok(","))>>
        \o [r \in DOMAIN m |->
               Separated([i \in DOMAIN headers |->
                             Tok(IF headers[i] \notin DOMAIN m[r] THEN ""
                                 ELSE Show(m[r][headers[i]]))],
                         Tok(","))]

\* The rendering the handler selects.
Render(sel, result, order) ==
    CASE sel = "text" -> formatResult(result, order)
      [] sel = "json" -> MarshalResult(result, order)
      [] sel = "csv" -> MapToCSV(result.Rows, result.Columns, order)

FormatInit ==
    /\ InitConfig
    /\ DSN = "ok"
    /\ phase = "serving"
    /\ tools = IF variant = "sqlx" THEN sqlxMain(ReadOnly)
                                   ELSE createMCPServer(ReadOnly)
    /\ DB = IF variant = "sqlx" THEN "open" ELSE "pool"

FormatFrame ==
    UNCHANGED <<variant, ReadOnly, WithExplainCheck, tools, QueriesExecuted,
                QueryErrors, TotalResponseTime, dbCalls, nreq, req, resp, sent,
                DB, phase, DSN, stats, pc, leases, xq, mu, task, ops, conn, sd>>

\* An executor returns a result: the pgx handlers render it as a text table
\* or, with format_json, as JSON; HandleQuery of the sqlx variant as CSV.
FormatResultArrives ==
    /\ fm.sel = "none"
    /\ \E cl \in ColumnLists, n \in 0..MaxResultRows,
          sel \in IF variant = "sqlx" THEN {"csv"} ELSE {"text", "json"} :
          \E rows \in [1..n -> [RangeOf(cl) -> CellValues]] :
             fm' = [fm EXCEPT !.sel = sel,
                       !.res = [Rows |-> rows, Columns |-> cl, Count |-> n,
                                Timing |-> IF sel = "csv" THEN "" ELSE "1ms"]]
    /\ FormatFrame

\* The result is formatted, its row maps ranging in some order.
FormatOnce ==
    /\ fm.sel # "none"
    /\ fm.done < 2
    /\ \E o \in Orders(fm.res.Columns) :
          fm' = IF fm.done = 0
                THEN [fm EXCEPT !.done = 1, !.o1 = o,
                                !.out1 = Render(fm.sel, fm.res, o)]
                ELSE [fm EXCEPT !.done = 2, !.o2 = o,
                                !.out2 = Render(fm.sel, fm.res, o)]
    /\ FormatFrame

FormatNext ==
    \/ FormatResultArrives
    \/ FormatOnce

FormatSpec == FormatInit /\ [][FormatNext]_vars

\* ================================================================ properties
\* The properties are stated over the last request handled (req), its
\* payload (resp) and the statements it sent to the database (sent).

Last(s) == s[Len(s)]

\* The errors the handlers raise themselves while validating a request.
ValidationMsgs ==
    {"query parameter is required",
     "only SELECT queries are allowed in read_query",
     "only SELECT queries are allowed",
     "Only SELECT queries are allowed",
     "UPDATE queries must include a WHERE clause. Use force=true to override",
     "DELETE queries must include a WHERE clause. Use force=true to override",
     "UPDATE queries must include a WHERE clause for safety",
     "DELETE queries must include a WHERE clause for safety",
     "server is in read-only mode",
     "index_name parameter is required",
     "table_name parameter is required"}

WhereGuardMsgs ==
    {"UPDATE queries must include a WHERE clause. Use force=true to override",
     "DELETE queries must include a WHERE clause. Use force=true to override",
     "UPDATE queries must include a WHERE clause for safety",
     "DELETE queries must include a WHERE clause for safety"}

ValidationRejected == resp.kind = "error" /\ resp.msg \in ValidationMsgs

HasWhere(q) == Contains(ToUpper(q), KW_WHERE)

ReadPrefix(q) ==
    LET u == ToUpper(TrimSpace(q))
    IN  HasPrefix(u, KW_SELECT) \/ HasPrefix(u, KW_WITH) \/ HasPrefix(u, KW_EXPLAIN)

\* C1: a read_query statement is handed to the executor exactly when its
\* trimmed, upper-cased text begins with SELECT, WITH or EXPLAIN; any other
\* statement is rejected with an error and no database call is made.
C1_ReadGate ==
    req.tool = "read_query" =>
        IF ReadPrefix(req.query)
        THEN ~ValidationRejected
        ELSE resp.kind = "error" /\ sent = <<>>

\* C2: an update_query or delete_query whose text has no WHERE and whose
\* force flag is unset or false is rejected with an error and no database
\* call is made.
C2_WhereGuard ==
    (req.tool \in {"update_query", "delete_query"}
        /\ ~HasWhere(req.query) /\ ~req.force)
    => (resp.kind = "error" /\ sent = <<>>)

C2_Witness ==
    /\ ~ReadOnly
    /\ req.tool = "delete_query"
    /\ req.query = T_delete
    /\ ~req.force
    /\ resp.kind = "error"
    /\ resp.msg \in WhereGuardMsgs

C4_ReadOnlyRejects ==
    ReadOnly =>
        /\ tools \cap MutatingTools = {}
        /\ req.tool \in MutatingTools => (resp.kind = "error" /\ sent = <<>>)

C4_Witness ==
    /\ ReadOnly
    /\ req.tool = "drop_index"
    /\ req.name = Str(I_t)
    /\ resp.kind = "error"
    /\ dbCalls = 0

\* C5: in read-only mode the mode check precedes the clause check: an
\* update_query or delete_query lacking WHERE (or with an empty query) is
\* rejected with the read-only-mode error, never with the missing-WHERE or
\* missing-parameter error.
C5_ModeBeforeClause ==
    (ReadOnly /\ req.tool \in {"update_query", "delete_query"}
        /\ (~HasWhere(req.query) \/ req.query = <<>>))
    => (resp.kind = "error" /\ resp.msg = "server is in read-only mode")

C5_Witness ==
    /\ ReadOnly
    /\ req.tool = "update_query"
    /\ req.query = <<>>
    /\ resp.msg = "server is in read-only mode"

\* C6: when update_query or delete_query is rejected by the WHERE guard,
\* query_errors is incremented while queries_executed and the cumulative
\* response time are unchanged.
C6_GuardRejectionMetrics ==
    [][(nreq' = nreq + 1 /\ resp'.kind = "error" /\ resp'.msg \in WhereGuardMsgs)
        => /\ QueryErrors' = QueryErrors + 1
           /\ QueriesExecuted' = QueriesExecuted
           /\ TotalResponseTime' = TotalResponseTime]_vars

\* The limit as the caller wrote it: 2.5 is "2.5".
FormatTenths(t) ==
    IF t % 10 = 0 THEN Itoa(t \div 10)
    ELSE Itoa(t \div 10) \o <<".">> \o Itoa(t % 10)

\* The statements an admitted read_query sends when the statement proper
\* is x: x, behind its pre-flight when the sqlx variant runs one.
SendsOnly(x) ==
    \A i \in DOMAIN sent : sent[i].text \in {x, S_EXPLAIN_SP \o x}

\* C7 as the specification states it: an admitted read_query whose text
\* contains LIMIT (case-insensitively) is sent unchanged; otherwise the text
\* sent is the original followed by ' LIMIT n', n the caller-supplied limit
\* or 1000.
C7_AsStated ==
    (req.tool = "read_query" /\ sent # <<>>)
    => SendsOnly(IF Contains(ToUpper(req.query), KW_LIMIT) THEN req.query
                 ELSE req.query \o S_LIMIT
                          \o (IF req.limit.kind = "number"
                              THEN FormatTenths(req.limit.tenths)
                              ELSE Itoa(DefaultLimit)))

\* C7, amended: an admitted read_query whose text contains LIMIT
\* (case-insensitively) is sent unchanged; otherwise the text sent is the
\* original followed by ' LIMIT n', n the caller-supplied number truncated
\* toward zero to an integer, or 1000 when no number is supplied.
C7_LimitAppended ==
    (req.tool = "read_query" /\ sent # <<>>)
    => SendsOnly(IF Contains(ToUpper(req.query), KW_LIMIT) THEN req.query
                 ELSE req.query \o S_LIMIT
                          \o (IF req.limit.kind = "number"
                              THEN Itoa(IntOf(req.limit.tenths))
                              ELSE Itoa(DefaultLimit)))

C7_Witness ==
    /\ req.tool = "read_query"
    /\ req.query = T_with
    /\ req.limit = NumberArg(25)
    /\ sent # <<>>
    /\ Last(sent).text = T_with \o S_LIMIT \o <<"2">>

GatedTools == {"read_query", "write_query", "update_query", "delete_query"}

\* C8: with the plan-validation gate enabled and a non-empty expected
\* statement kind, the EXPLAIN pre-flight is sent first, and when it fails
\* the real statement is never sent and the pre-flight's error is what the
\* caller receives.
C8_PreflightGate ==
    (variant = "sqlx" /\ WithExplainCheck /\ req.tool \in GatedTools
        /\ sent # <<>>)
    => /\ HasPrefix(sent[1].text, S_EXPLAIN_SP)
       /\ Len(sent) <= 2
       /\ Len(sent) = 2 => (sent[1].ok /\ S_EXPLAIN_SP \o sent[2].text = sent[1].text)
       /\ ~sent[1].ok => (Len(sent) = 1 /\ resp.kind = "error" /\ resp.errAt = 1)

C8_Witness ==
    /\ variant = "sqlx"
    /\ WithExplainCheck
    /\ req.tool = "update_query"
    /\ sent = <<Stmt(S_EXPLAIN_SP \o T_updateWhere, "query", FALSE, 0)>>
    /\ resp.kind = "error"
    /\ resp.errAt = 1

\* What PostgreSQL does with a statement: INSERT, UPDATE and DELETE modify
\* data, and EXPLAIN ANALYZE runs the statement it explains.
IsDML(u) ==
    HasPrefix(u, KW_INSERT) \/ HasPrefix(u, KW_UPDATE) \/ HasPrefix(u, KW_DELETE)

RECURSIVE ModifiesData(_)
ModifiesData(t) ==
    LET u == ToUpper(TrimSpace(t))
    IN  \/ IsDML(u)
        \/ /\ HasPrefix(u, S_EXPLAIN \o S_ANALYZE \o S_BUFFERS \o S_SP)
           /\ ModifiesData(SubSeq(u, 25, Len(u)))
        \/ /\ HasPrefix(u, S_EXPLAIN \o S_ANALYZE \o S_SP)
           /\ ModifiesData(SubSeq(u, 17, Len(u)))

\* C9: in read-only mode no sequence of tool calls executes a
\* caller-supplied data-modifying statement, read_query, count_query,
\* explain_query (analyze=true) and analyze_table included.
C9_ReadOnlyNeverModifies ==
    ReadOnly =>
        \A i \in DOMAIN sent : ~(sent[i].ok /\ ModifiesData(sent[i].text))

PoolSettled == \A r \in Requests : pc[r] \in {"done", "failed"}

\* C10: with N concurrent read_query requests and a pool of at most M < N
\* connections, at most M connections are leased in every state, every
\* request eventually completes or fails with a pool-exhaustion or timeout
\* error, and the system never deadlocks.
C10_PoolBounded ==
    /\ [](Cardinality(leases) <= MaxConnections)
    /\ \A r \in Requests : <>(pc[r] \in {"done", "failed"})
    /\ [](PoolSettled \/ ENABLED PoolNext)

C10_Witness ==
    /\ MaxConnections < NumRequests
    /\ Cardinality(leases) = MaxConnections
    /\ \E r \in Requests : pc[r] = "acquiring" /\ r \notin leases

\* C14: get_stats reports an average response time equal to the cumulative
\* response time divided by queries_executed whenever queries_executed > 0,
\* and a present, numeric zero (no NaN, no missing field, no empty payload)
\* when queries_executed is 0.
C14_StatsAverage ==
    stats.kind # "none" =>
        /\ stats.kind = "json"
        /\ stats.hasAvg
        /\ stats.avg.kind = "num"
        /\ stats.queries_executed > 0 => stats.avg.den = stats.queries_executed
        /\ stats.queries_executed = 0 => stats.avg.num = 0

\* C16: get_stats only reads the metrics: a get_stats call leaves
\* queries_executed, query_errors and the cumulative response time unchanged.
C16_StatsReadsOnly ==
    [][(nreq' = nreq + 1 /\ req'.tool = "get_stats")
        => /\ QueriesExecuted' = QueriesExecuted
           /\ QueryErrors' = QueryErrors
           /\ TotalResponseTime' = TotalResponseTime]_vars

\* The last request ended in an error: it was rejected by validation, the
\* connection could not be opened, or a statement it sent failed.
Failed ==
    \/ resp.kind = "error"
    \/ \E i \in DOMAIN sent : ~sent[i].ok

\* C17: every per-request error (validation rejection or database failure)
\* comes back as a textual 'Error: ...' payload with a nil transport-level
\* error, and the server goes on serving.
C17_ErrorPayload ==
    nreq > 0 =>
        /\ resp.terr = "nil"
        /\ phase = "serving"
        /\ Failed => (resp.text # <<>> /\ resp.text[1] = "Error: ")

\* C20: a missing or invalid connection string is fatal at startup: the
\* server fails before registering or serving any tool, so no request is
\* handled unless the pool was created and pinged successfully.
C20_FatalAtStartup ==
    /\ (phase = "serving" \/ tools # {}) => DSN = "ok"
    /\ nreq > 0 => DB # "nil"


\* C11: a request holds at most one pool lease at any time, and holds none
\* once its executor has returned, whether it returned rows, a database
\* error or a per-row decode error, and whether or not the EXPLAIN
\* pre-flight ran first.
C11_LeaseReleased ==
    /\ xq.held <= 1
    /\ xq.pc = "returned" => xq.held = 0

\* The pre-flight ran, the statement's cursor was opened, a row failed to
\* decode and the executor has returned.
C11_Witness ==
    /\ xq.pc = "returned"
    /\ xq.explained
    /\ xq.res.kind = "error" /\ xq.res.err = "decode"
    /\ xq.held = 0

\* C12: every statement in flight runs under an armed deadline, and a
\* request whose deadline passed returns the timeout error.
C12_Deadline ==
    /\ xq.pc \in {"explain", "explained", "query", "rows"} => xq.deadline
    /\ (xq.pc = "returned" /\ xq.expired)
          => (xq.res.kind = "error" /\ xq.res.err = "timeout")

\* C18: a read that returns a result has read its cursor to the end without
\* an iteration error.
C18_NoPartialResult ==
    xq.res.kind = "result" => (~xq.cursorErr /\ xq.remaining = 0)

\* C19: a returned result counts its rows, its column names are unique and
\* every row has exactly one entry per column.
C19_ResultShape ==
    xq.res.kind = "result" =>
        /\ xq.res.Count = Len(xq.res.Rows)
        /\ Cardinality(RangeOf(xq.res.Columns)) = Len(xq.res.Columns)
        /\ \A i \in DOMAIN xq.res.Rows :
              /\ DOMAIN xq.res.Rows[i] = RangeOf(xq.res.Columns)
              /\ Cardinality(DOMAIN xq.res.Rows[i]) = Len(xq.res.Columns)


\* C13: queries_executed and query_errors never decrease, whatever the
\* interleaving of the requests' memory accesses.
C13_Monotonic ==
    [][QueriesExecuted' >= QueriesExecuted /\ QueryErrors' >= QueryErrors]_vars

\* One request is between the load and the store of queries_executed while
\* another, which would increment it too, waits for the lock.
C13_Witness ==
    \E p, q \in Procs :
        /\ p # q
        /\ task[p].at = "stQE"
        /\ task[q].at = "lock" /\ task[q].op = "success"
        /\ QueriesExecuted > 0

\* C15: every access to the metrics is made holding the one mutex (writes
\* exclusively, reads shared with readers only), and what get_stats has
\* read so far equals the metrics as they are: no torn pair.
C15_NoTornRead ==
    \A p \in Procs :
        /\ task[p].at \in {"ldQE", "stQE", "ldErr", "stErr", "ldT", "stT", "unlock"}
              => (mu.writer = p /\ mu.readers = {})
        /\ task[p].at \in {"rdQE", "rdErr", "rdT", "rdQE2", "runlock"}
              => (p \in mu.readers /\ mu.writer = 0)
        /\ task[p].at \in {"rdErr", "rdT", "rdQE2", "runlock"}
              => task[p].qe = QueriesExecuted
        /\ task[p].at \in {"rdQE2", "runlock"}
              => task[p].t = TotalResponseTime
        /\ task[p].at = "runlock" => task[p].qe2 = task[p].qe

\* get_stats has read a non-zero counter and its accumulator while another
\* request waits to update both.
C15_Witness ==
    \E p, q \in Procs :
        /\ p # q
        /\ task[p].at = "runlock" /\ task[p].qe > 0 /\ task[p].t > 0
        /\ task[q].at = "lock" /\ task[q].op = "success"


\* C26: get_slow_queries answers with the fixed "extension not available"
\* message only when the statistics query failed because the extension is
\* absent, never for another failure.
C26_FallbackOnlyWhenAbsent ==
    (nreq > 0 /\ req.tool = "get_slow_queries"
        /\ resp.msg = "pg_stat_statements extension not available")
    => (sent # <<>> /\ Last(sent).why = "undefined_table")


\* The statements of a request the database executed successfully.
Executed(q) == {i \in DOMAIN q : q[i].ok}

\* C27: in the variants that keep metrics, a request adds to
\* queries_executed exactly the number of statements it executed
\* successfully, and a request that executed none (rejected before
\* execution, or its statement failed) leaves queries_executed and the
\* cumulative response time unchanged.
C27_SuccessOnly ==
    [][(nreq' = nreq + 1 /\ variant # "sqlx")
        => /\ QueriesExecuted' = QueriesExecuted + Cardinality(Executed(sent'))
           /\ Executed(sent') = {}
                 => TotalResponseTime' = TotalResponseTime]_vars

\* C29: in the variants that keep metrics, a request that ends in an error
\* adds exactly one to query_errors.
C29_OneErrorPerFailure ==
    [][(nreq' = nreq + 1 /\ variant # "sqlx" /\ resp'.kind = "error")
        => QueryErrors' = QueryErrors + 1]_vars


\* The request declares a non-empty expected statement kind and the plan
\* check is enabled (only the sqlx variant declares expected kinds).
PlanChecked == variant = "sqlx" /\ WithExplainCheck /\ req.tool \in GatedTools

C30_ConnectOnce ==
    /\ conn.made <= 1
    /\ conn.DB \in {0, 1}
    /\ \A p, q \in Procs :
          (conn.at[p] = "done" /\ conn.at[q] = "done") => conn.got[p] = conn.got[q]


\* The signal has been dealt with: the handler's cancel() has run and, on
\* the transport whose loop reacts to the signal itself, the loop returned.
SignalHandled ==
    /\ sd.transport \in Transports
    /\ sd.ctxDone
    /\ sd.transport = "stdio" => ~sd.serving

\* C21: once the shutdown signal has been dealt with, the serving loop has
\* stopped and no request runs on a live context; and the pool is closed
\* only after the loop stopped and every lease was given back.
C21_ShutdownDrains ==
    /\ SignalHandled
          => (~sd.serving /\ \A p \in Procs : sd.inflight[p] # "running")
    /\ sd.poolClosed => (~sd.serving /\ \A p \in Procs : ~Leased(p))


\* The identifier values the last request carried.
Identifiers ==
    {v \in {getStringParam(req.schema, <<>>), getStringParam(req.name, <<>>)} :
        v # <<>>}

\* C22: the statement of list_tables and list_indexes does not contain the
\* identifier values of the request; they are bound to its positional
\* parameters.
C22_IdentifiersBound ==
    (nreq > 0 /\ req.tool \in {"list_tables", "list_indexes"})
    => \A i \in DOMAIN sent : \A v \in Identifiers :
          /\ ~Contains(sent[i].text, v)
          /\ v \in RangeOf(sent[i].args)


\* C23: formatting the same result twice with the same format gives the
\* same output, whatever order the row maps range in.
C23_FormatDeterministic ==
    fm.done = 2 => fm.out1 = fm.out2

\* A result of two columns and at least one row was formatted twice, its
\* row maps ranging in different orders.
C23_Witness ==
    /\ fm.done = 2
    /\ fm.o1 # fm.o2
    /\ Len(fm.res.Rows) > 0
    /\ fm.out1 # <<>>

\* C24: a nil cell is the piece NULL in the text table and an empty field
\* in the CSV output.
C24_NullRendering ==
    fm.done >= 1 =>
        \A i \in DOMAIN fm.res.Rows : \A j \in DOMAIN fm.res.Columns :
            fm.res.Rows[i][fm.res.Columns[j]].nil
            => /\ fm.sel = "text" => fm.out1[5 + i][2 * j - 1].s = "NULL"
               /\ fm.sel = "csv" => fm.out1[1 + i][2 * j - 1].s = ""

\* C25: a result without rows is rendered, as text and as CSV, as the "no
\* results" message with the elapsed time and nothing else.
C25_EmptyResult ==
    (fm.done >= 1 /\ Len(fm.res.Rows) = 0 /\ fm.sel \in {"text", "csv"})
    => /\ fm.out1[1] = <<Tok("No results found.")>>
       /\ fm.res.Timing # ""
       /\ \E l \in DOMAIN fm.out1 : \E k \in DOMAIN fm.out1[l] :
             fm.out1[l][k] = Tok(fm.res.Timing)
       /\ Len(fm.out1) <= 2

====
